---- MODULE Spec2Model ----
(***************************************************************************)
(* A model of the generic GORM repository of lemmego/gpagorm               *)
(* (src/repository.go): the error classifier convertGormError, the hook    *)
(* lifecycle around Create / CreateBatch / Update / Delete / FindByID,     *)
(* UpdatePartial and Transaction, the query compiler buildQuery with      *)
(* applyCondition / applyHaving, and FindAll / Query, over an abstract     *)
(* relational store that holds one table of rows keyed by primary key.     *)
(***************************************************************************)
EXTENDS Integers, Sequences, FiniteSets, TLC

VARIABLES
    rows,        \* the table: primary key -> stored row, or NoRow
    dialect,     \* the backend the provider was opened on
    txOpen,      \* TRUE while the function passed to Transaction is running
    txSnapshot,  \* the table as it was when the running/last transaction began
    txCreated,   \* primary keys created through the transactional handle and not deleted since
    lastOp,      \* name of the repository operation that returned last
    lastArg,     \* its argument (entity, id, entity list, raw error, fn's result)
    lastArg2,    \* its second argument (the updates mapping of UpdatePartial), or the
                 \* hooks of the entity type (CreateBatch; AfterFind of the find calls)
    lastErr,     \* the error it returned (Nil for success)
    lastResult,  \* the value it returned next to the error
    trace,       \* the lifecycle steps it executed, in order
    prevRows,    \* the table as it was when the operation was called
    hookErr,     \* the hook that failed in the call: its step, entity index and error (NoFail: none)
    storeErr,    \* the error the store reported in the call, or Nil
    lastQuery,   \* the statement the call handed to the store (find, count and delete-by-condition calls)
    handles,     \* the store handle of the repository in use: r.db, and over it the
                 \* transactional handle while the function passed to Transaction runs
    txCalls,     \* the Commit() / Rollback() calls made on the transactional handle
                 \* in the running/last transaction
    schema,      \* whether the entity's table exists, and the names of its indexes
    procs        \* the concurrent callers: for each its call, its position in it and its result

vars == <<rows, dialect, txOpen, txSnapshot, txCreated, lastOp, lastArg, lastArg2,
          lastErr, lastResult, trace, prevRows, hookErr, storeErr, lastQuery, handles,
          txCalls, schema, procs>>

(***************************************************************************)
(* Bounds of the model.                                                    *)
(***************************************************************************)
MaxId == 2
MaxBatch == 2

Ids == 1..MaxId
Names == {"John Doe", "John Smith"}
Ages == {30, 31}
Fields == {"name", "age"}

NoRow == [absent |-> TRUE]

\* an entity value handed to the repository; ID 0 is the zero value (not yet assigned)
Entity == [ID : 0..MaxId, name : Names, age : Ages]

(***************************************************************************)
(* Error values.  Nil is Go's nil error.  A raw error is a sentinel of the  *)
(* store or some other plain error; Wrap is fmt.Errorf("%w", e); a gpa     *)
(* error is a gpa.GPAError{Type, Message, Cause}.                          *)
(***************************************************************************)
Nil == [kind |-> "nil"]

Raw(sig) == [kind |-> "raw", sig |-> sig]

Wrap(e) == [kind |-> "wrap", cause |-> e]

ErrRecordNotFound == Raw("gorm.ErrRecordNotFound")

ErrDuplicatedKey == Raw("gorm.ErrDuplicatedKey")

\* any other failure the driver reports (connection lost, constraint text, ...)
ErrDriver == Raw("driver")

ErrorTypes == {"NotFound", "Duplicate", "Validation", "Database"}

GPAError(type, msg, cause) == [kind |-> "gpa", type |-> type, msg |-> msg, cause |-> cause]

NewError(type, msg) == GPAError(type, msg, Nil)

NewErrorWithCause(type, msg, cause) == GPAError(type, msg, cause)

IsGPAError(e) == e.kind = "gpa"

\* errors.Is(err, target) for a sentinel target: walks the Unwrap chain
\* (a GPAError unwraps to its Cause).
RECURSIVE ErrorsIs(_, _)
ErrorsIs(err, target) ==
    CASE err.kind = "nil" -> FALSE
      [] err.kind = "raw" -> err = target
      [] err.kind = "wrap" -> ErrorsIs(err.cause, target)
      [] err.kind = "gpa" -> ErrorsIs(err.cause, target)

\* convertGormError that drops the original error from the Database error
convertGormErrorNoCause(err) ==
    IF err = Nil THEN Nil
    ELSE IF ErrorsIs(err, ErrRecordNotFound) THEN NewError("NotFound", "record not found")
    ELSE IF ErrorsIs(err, ErrDuplicatedKey) THEN NewError("Duplicate", "duplicate key")
    ELSE IF IsGPAError(err) THEN err
    ELSE NewError("Database", "database error")

convertGormError(err) ==
    IF err = Nil THEN Nil
    ELSE IF ErrorsIs(err, ErrRecordNotFound) THEN NewError("NotFound", "record not found")
    ELSE IF ErrorsIs(err, ErrDuplicatedKey) THEN NewError("Duplicate", "duplicate key")
    ELSE IF IsGPAError(err) THEN err
    ELSE NewErrorWithCause("Database", "database error", err)

(***************************************************************************)
(* The relational store behind *gorm.DB, as the repository uses it.  Every *)
(* call takes the failure the store reports for it (Nil: none).            *)
(***************************************************************************)
\* errors the store can report for a statement: any driver failure, or a
\* unique-key conflict translated to gorm.ErrDuplicatedKey
StoreErrs == {ErrDriver, ErrDuplicatedKey}

StoreOutcomes == {Nil} \cup StoreErrs

EmptyTable == [i \in Ids |-> NoRow]

UsedIds(db) == {i \in Ids : db[i] # NoRow}

\* the auto-increment primary key the store assigns to an entity whose ID is 0
NextId(db) == IF UsedIds(db) = {} THEN 1 ELSE (CHOOSE m \in UsedIds(db) : \A i \in UsedIds(db) : i <= m) + 1

RowOf(entity) == [name |-> entity.name, age |-> entity.age]

\* db.Create(entity): INSERT; a zero ID is assigned by the store, a taken
\* primary key is a key conflict, reported untranslated unless the store
\* reports it as gorm.ErrDuplicatedKey
StoreCreate(db, entity, fault) ==
    LET id == IF entity.ID = 0 THEN NextId(db) ELSE entity.ID IN
    IF fault # Nil THEN [rows |-> db, err |-> fault, id |-> 0]
    ELSE IF db[id] # NoRow THEN [rows |-> db, err |-> ErrDriver, id |-> 0]
    ELSE [rows |-> [db EXCEPT ![id] = RowOf(entity)], err |-> Nil, id |-> id]

\* db.Save(entity): INSERT when the ID is zero; otherwise UPDATE of all
\* fields by primary key, followed by an upsert when that UPDATE affected
\* no row
StoreSave(db, entity, fault) ==
    IF fault # Nil THEN [rows |-> db, err |-> fault, id |-> 0]
    ELSE IF entity.ID = 0 THEN StoreCreate(db, entity, Nil)
    ELSE [rows |-> [db EXCEPT ![entity.ID] = RowOf(entity)], err |-> Nil, id |-> entity.ID]

\* db.First(&entity, id)
StoreFirst(db, id, fault) ==
    IF fault # Nil THEN [err |-> fault, row |-> NoRow]
    ELSE IF db[id] = NoRow THEN [err |-> ErrRecordNotFound, row |-> NoRow]
    ELSE [err |-> Nil, row |-> db[id]]

\* db.Delete(&entity, id)
StoreDelete(db, id, fault) ==
    IF fault # Nil THEN [rows |-> db, err |-> fault, rowsAffected |-> 0]
    ELSE [rows |-> [db EXCEPT ![id] = NoRow], err |-> Nil,
          rowsAffected |-> IF db[id] # NoRow THEN 1 ELSE 0]

\* db.Model(&entity).Where("id = ?", id).Updates(updates): an empty mapping
\* builds no SET clause and no statement is executed; RowsAffected counts the
\* matched rows, except on MySQL (DSN without clientFoundRows) where it
\* counts the rows whose values changed
\* Updates that writes the whole row: a column the mapping does not name is
\* reset to the value of a fresh entity
ApplyUpdatesResetsOthers(row, updates) ==
    [f \in Fields |-> IF f \in DOMAIN updates THEN updates[f]
                      ELSE IF f = "name" THEN "John Doe" ELSE 30]

ApplyUpdates(row, updates) == [f \in Fields |-> IF f \in DOMAIN updates THEN updates[f] ELSE row[f]]

StoreUpdates(db, dia, id, updates, fault) ==
    IF DOMAIN updates = {} THEN [rows |-> db, err |-> Nil, rowsAffected |-> 0]
    ELSE IF fault # Nil THEN [rows |-> db, err |-> fault, rowsAffected |-> 0]
    ELSE IF db[id] = NoRow THEN [rows |-> db, err |-> Nil, rowsAffected |-> 0]
    ELSE LET new == ApplyUpdates(db[id], updates) IN
         [rows |-> [db EXCEPT ![id] = new], err |-> Nil,
          rowsAffected |-> IF dia = "mysql" /\ new = db[id] THEN 0 ELSE 1]

(***************************************************************************)
(* Hooks.  An entity may implement a hook or not (Absent); an implemented  *)
(* hook returns nil or an error.                                           *)
(***************************************************************************)
Absent == [kind |-> "absent"]

HookOutcomes == {Absent, Nil, Raw("hook"), ErrRecordNotFound}

Failed(h) == h # Absent /\ h # Nil

Ev(step, i) == [step |-> step, idx |-> i]

\* the step a call records when the entity implements the hook
Invoke(h, step) == IF h = Absent THEN <<>> ELSE <<Ev(step, 1)>>

\* the hook failure of a call: which hook, on which entity of the call, its error
Fail(step, i, err) == [step |-> step, idx |-> i, err |-> err]

NoFail == Fail("none", 0, Nil)

\* the failure recorded for a post-persistence hook with outcome a
AfterFail(a, step) == IF Failed(a) THEN Fail(step, 1, a) ELSE NoFail

\* what a repository call leaves behind: table, returned error, returned
\* value, executed steps, the failing hook, the store's error
Out(db, err, result, tr, herr, serr) ==
    [rows |-> db, err |-> err, result |-> result, trace |-> tr, hookErr |-> herr, storeErr |-> serr]

(***************************************************************************)
(* Repository operations (src/repository.go), as functions of the table,   *)
(* the arguments, the hook outcomes and the store outcome.                 *)
(***************************************************************************)
\* Create with BeforeCreate called after the INSERT instead of before it
CreateHookAfterInsert(db, entity, v, b, fault, a) ==
    LET tv == Invoke(v, "Validate")
        ins == StoreCreate(db, entity, fault)
        tp == tv \o <<Ev("persist", 1)>>
        tb == tp \o Invoke(b, "BeforeCreate")
    IN  IF Failed(v)
        THEN Out(db, NewErrorWithCause("Validation", "validation failed", v), 0, tv, Fail("Validate", 1, v), Nil)
        ELSE IF ins.err # Nil /\ ~Failed(b)
        THEN Out(db, convertGormError(ins.err), 0, tp, NoFail, ins.err)
        ELSE IF Failed(b)
        THEN Out(StoreCreate(db, entity, Nil).rows, NewErrorWithCause("Validation", "before create hook failed", b),
                 0, tb, Fail("BeforeCreate", 1, b), Nil)
        ELSE Out(ins.rows, Nil, ins.id, tb \o Invoke(a, "AfterCreate"), AfterFail(a, "AfterCreate"), Nil)

Create(db, entity, v, b, fault, a) ==
    LET tv == Invoke(v, "Validate")
        tb == tv \o Invoke(b, "BeforeCreate")
        ins == StoreCreate(db, entity, fault)
    IN  IF Failed(v)
        THEN Out(db, NewErrorWithCause("Validation", "validation failed", v), 0, tv, Fail("Validate", 1, v), Nil)
        ELSE IF Failed(b)
        THEN Out(db, NewErrorWithCause("Validation", "before create hook failed", b), 0, tb, Fail("BeforeCreate", 1, b), Nil)
        ELSE IF ins.err # Nil
        THEN Out(db, convertGormError(ins.err), 0, tb \o <<Ev("persist", 1)>>, NoFail, ins.err)
        ELSE Out(ins.rows, Nil, ins.id, tb \o <<Ev("persist", 1)>> \o Invoke(a, "AfterCreate"),
                 AfterFail(a, "AfterCreate"), Nil)

\* Update that returns the AfterUpdate hook's failure to the caller
UpdateSurfacesAfterHook(db, entity, v, b, fault, a) ==
    LET tv == Invoke(v, "Validate")
        tb == tv \o Invoke(b, "BeforeUpdate")
        sav == StoreSave(db, entity, fault)
    IN  IF Failed(v)
        THEN Out(db, NewErrorWithCause("Validation", "validation failed", v), 0, tv, Fail("Validate", 1, v), Nil)
        ELSE IF Failed(b)
        THEN Out(db, NewErrorWithCause("Validation", "before update hook failed", b), 0, tb, Fail("BeforeUpdate", 1, b), Nil)
        ELSE IF sav.err # Nil
        THEN Out(db, convertGormError(sav.err), 0, tb \o <<Ev("persist", 1)>>, NoFail, sav.err)
        ELSE Out(sav.rows,
                 IF Failed(a) THEN NewErrorWithCause("Validation", "after update hook failed", a) ELSE Nil,
                 sav.id, tb \o <<Ev("persist", 1)>> \o Invoke(a, "AfterUpdate"),
                 AfterFail(a, "AfterUpdate"), Nil)

\* Update that calls BeforeUpdate ahead of Validate
UpdateBeforeHookFirst(db, entity, v, b, fault, a) ==
    LET tb == Invoke(b, "BeforeUpdate")
        tv == tb \o Invoke(v, "Validate")
        sav == StoreSave(db, entity, fault)
    IN  IF Failed(b)
        THEN Out(db, NewErrorWithCause("Validation", "before update hook failed", b), 0, tb, Fail("BeforeUpdate", 1, b), Nil)
        ELSE IF Failed(v)
        THEN Out(db, NewErrorWithCause("Validation", "validation failed", v), 0, tv, Fail("Validate", 1, v), Nil)
        ELSE IF sav.err # Nil
        THEN Out(db, convertGormError(sav.err), 0, tv \o <<Ev("persist", 1)>>, NoFail, sav.err)
        ELSE Out(sav.rows, Nil, sav.id, tv \o <<Ev("persist", 1)>> \o Invoke(a, "AfterUpdate"),
                 AfterFail(a, "AfterUpdate"), Nil)

Update(db, entity, v, b, fault, a) ==
    LET tv == Invoke(v, "Validate")
        tb == tv \o Invoke(b, "BeforeUpdate")
        sav == StoreSave(db, entity, fault)
    IN  IF Failed(v)
        THEN Out(db, NewErrorWithCause("Validation", "validation failed", v), 0, tv, Fail("Validate", 1, v), Nil)
        ELSE IF Failed(b)
        THEN Out(db, NewErrorWithCause("Validation", "before update hook failed", b), 0, tb, Fail("BeforeUpdate", 1, b), Nil)
        ELSE IF sav.err # Nil
        THEN Out(db, convertGormError(sav.err), 0, tb \o <<Ev("persist", 1)>>, NoFail, sav.err)
        ELSE Out(sav.rows, Nil, sav.id, tb \o <<Ev("persist", 1)>> \o Invoke(a, "AfterUpdate"),
                 AfterFail(a, "AfterUpdate"), Nil)

UpdatePartial(db, dia, id, updates, fault) ==
    LET upd == StoreUpdates(db, dia, id, updates, fault)
    IN  IF upd.err # Nil
        THEN Out(db, convertGormError(upd.err), 0, <<Ev("persist", 1)>>, NoFail, upd.err)
        ELSE IF upd.rowsAffected = 0
        THEN Out(upd.rows, GPAError("NotFound", "entity not found", Nil), 0, <<Ev("persist", 1)>>, NoFail, Nil)
        ELSE Out(upd.rows, Nil, 0, <<Ev("persist", 1)>>, NoFail, Nil)

\* Delete that runs the hooks on a zero entity without fetching the row first
DeleteWithoutFetch(db, id, fetchFault, b, fault, a) ==
    LET tb == Invoke(b, "BeforeDelete")
        del == StoreDelete(db, id, fault)
    IN  IF Failed(b)
        THEN Out(db, NewErrorWithCause("Validation", "before delete hook failed", b), 0, tb, Fail("BeforeDelete", 1, b), Nil)
        ELSE IF del.err # Nil
        THEN Out(db, convertGormError(del.err), 0, tb \o <<Ev("persist", 1)>>, NoFail, del.err)
        ELSE IF del.rowsAffected = 0
        THEN Out(del.rows, GPAError("NotFound", "entity not found", Nil), 0,
                 tb \o <<Ev("persist", 1)>>, NoFail, Nil)
        ELSE Out(del.rows, Nil, 0, tb \o <<Ev("persist", 1)>> \o Invoke(a, "AfterDelete"),
                 AfterFail(a, "AfterDelete"), Nil)

Delete(db, id, fetchFault, b, fault, a) ==
    LET fst == StoreFirst(db, id, fetchFault)
        tf == <<Ev("fetch", 1)>>
        tb == tf \o Invoke(b, "BeforeDelete")
        del == StoreDelete(db, id, fault)
    IN  IF fst.err # Nil
        THEN Out(db, convertGormError(fst.err), 0, tf, NoFail, fst.err)
        ELSE IF Failed(b)
        THEN Out(db, NewErrorWithCause("Validation", "before delete hook failed", b), 0, tb, Fail("BeforeDelete", 1, b), Nil)
        ELSE IF del.err # Nil
        THEN Out(db, convertGormError(del.err), 0, tb \o <<Ev("persist", 1)>>, NoFail, del.err)
        ELSE IF del.rowsAffected = 0
        THEN Out(del.rows, GPAError("NotFound", "entity not found", Nil), 0,
                 tb \o <<Ev("persist", 1)>>, NoFail, Nil)
        ELSE Out(del.rows, Nil, 0, tb \o <<Ev("persist", 1)>> \o Invoke(a, "AfterDelete"),
                 AfterFail(a, "AfterDelete"), Nil)

FindByID(db, id, fault, a) ==
    LET fst == StoreFirst(db, id, fault)
        tf == <<Ev("fetch", 1)>>
    IN  IF convertGormError(fst.err) # Nil
        THEN Out(db, convertGormError(fst.err), NoRow, tf, NoFail, fst.err)
        ELSE Out(db, Nil, fst.row, tf \o Invoke(a, "AfterFind"), AfterFail(a, "AfterFind"), Nil)

\* sub-batch size CreateBatch hands to CreateInBatches
BatchSize == 100

\* one INSERT for the whole slice, whatever its length
SubBatchesSingle(i, n) == IF i >= n THEN <<>> ELSE <<[from |-> i, ends |-> n]>>

\* the loop of CreateInBatches over n entities from index i: the slices
\* [i, ends) it inserts one after another
RECURSIVE SubBatches(_, _)
SubBatches(i, n) ==
    IF i >= n THEN <<>>
    ELSE LET ends == IF i + BatchSize > n THEN n ELSE i + BatchSize
         IN  <<[from |-> i, ends |-> ends]>> \o SubBatches(i + BatchSize, n)

\* number of physical INSERT statements CreateInBatches issues for n entities
NumWrites(n) == Len(SubBatches(0, n))

\* db.CreateInBatches(entities, 100): the sub-batches are inserted in one
\* store transaction, so a failure of any row leaves no row behind
RECURSIVE InsertAll(_, _, _)
InsertAll(db, entities, ids) ==
    IF entities = <<>> THEN [rows |-> db, err |-> Nil, ids |-> ids]
    ELSE LET e == Head(entities)
             id == IF e.ID = 0 THEN NextId(db) ELSE e.ID
         IN  IF db[id] # NoRow
             THEN [rows |-> db, err |-> ErrDriver, ids |-> ids]
             ELSE InsertAll([db EXCEPT ![id] = RowOf(e)], Tail(entities), Append(ids, id))

\* the model's table holds MaxId rows: an insertion stays within it
RECURSIVE WithinIds(_, _)
WithinIds(db, entities) ==
    IF entities = <<>> THEN TRUE
    ELSE LET e == Head(entities)
             id == IF e.ID = 0 THEN NextId(db) ELSE e.ID
         IN  /\ id \in Ids
             /\ db[id] = NoRow => WithinIds([db EXCEPT ![id] = RowOf(e)], Tail(entities))

StoreCreateInBatches(db, entities, fault) ==
    LET ins == InsertAll(db, entities, <<>>) IN
    IF entities = <<>> THEN [rows |-> db, err |-> Nil, ids |-> <<>>, writes |-> 0]
    ELSE IF fault # Nil THEN [rows |-> db, err |-> fault, ids |-> <<>>, writes |-> 1]
    ELSE IF ins.err # Nil THEN [rows |-> db, err |-> ins.err, ids |-> <<>>, writes |-> 1]
    ELSE [rows |-> ins.rows, err |-> Nil, ids |-> ins.ids, writes |-> NumWrites(Len(entities))]

\* the steps of one hook loop over entities 1..n
Loop(step, n) == [i \in 1..n |-> Ev(step, i)]

\* CreateBatch with one loop that calls Validate and then BeforeCreate on
\* each entity in turn, instead of validating all entities first
CreateBatchOneLoop(db, entities, impl, vFailAt, bFailAt, fault, aFails) ==
    LET n == Len(entities)
        both == "Validate" \in impl /\ "BeforeCreate" \in impl
        vStop == "Validate" \in impl /\ vFailAt # 0
        pair(k) == [i \in 1..(2 * k) |-> IF i % 2 = 1 THEN Ev("Validate", (i + 1) \div 2)
                                                      ELSE Ev("BeforeCreate", i \div 2)]
        tv == IF both /\ vStop THEN pair(vFailAt - 1) \o <<Ev("Validate", vFailAt)>>
              ELSE IF "Validate" \in impl THEN Loop("Validate", IF vFailAt # 0 THEN vFailAt ELSE n) ELSE <<>>
        tb == tv \o (IF "BeforeCreate" \in impl
                     THEN Loop("BeforeCreate", IF bFailAt # 0 THEN bFailAt ELSE n) ELSE <<>>)
        ins == StoreCreateInBatches(db, entities, fault)
        tp == tb \o Loop("persist", ins.writes)
        herr == Raw("hook")
    IN  IF vStop
        THEN Out(db, NewErrorWithCause("Validation", "validation failed", herr), <<>>, tv,
                 Fail("Validate", vFailAt, herr), Nil)
        ELSE IF "BeforeCreate" \in impl /\ bFailAt # 0
        THEN Out(db, NewErrorWithCause("Validation", "before create hook failed", herr), <<>>, tb,
                 Fail("BeforeCreate", bFailAt, herr), Nil)
        ELSE IF ins.err # Nil
        THEN Out(db, convertGormError(ins.err), <<>>, tp, NoFail, ins.err)
        ELSE Out(ins.rows, Nil, ins.ids,
                 tp \o (IF "AfterCreate" \in impl THEN Loop("AfterCreate", n) ELSE <<>>),
                 IF "AfterCreate" \in impl /\ aFails # {}
                 THEN Fail("AfterCreate", CHOOSE i \in aFails : \A j \in aFails : i <= j, herr)
                 ELSE NoFail, Nil)

\* CreateBatch over entities of one type: impl is the set of hooks the type
\* implements, vFailAt / bFailAt the first entity whose Validate /
\* BeforeCreate fails (0: none), aFails the entities whose AfterCreate fails
CreateBatch(db, entities, impl, vFailAt, bFailAt, fault, aFails) ==
    LET n == Len(entities)
        tv == IF "Validate" \in impl THEN Loop("Validate", IF vFailAt # 0 THEN vFailAt ELSE n) ELSE <<>>
        tb == tv \o (IF "BeforeCreate" \in impl
                     THEN Loop("BeforeCreate", IF bFailAt # 0 THEN bFailAt ELSE n) ELSE <<>>)
        ins == StoreCreateInBatches(db, entities, fault)
        tp == tb \o Loop("persist", ins.writes)
        herr == Raw("hook")
    IN  IF "Validate" \in impl /\ vFailAt # 0
        THEN Out(db, NewErrorWithCause("Validation", "validation failed", herr), <<>>, tv,
                 Fail("Validate", vFailAt, herr), Nil)
        ELSE IF "BeforeCreate" \in impl /\ bFailAt # 0
        THEN Out(db, NewErrorWithCause("Validation", "before create hook failed", herr), <<>>, tb,
                 Fail("BeforeCreate", bFailAt, herr), Nil)
        ELSE IF ins.err # Nil
        THEN Out(db, convertGormError(ins.err), <<>>, tp, NoFail, ins.err)
        ELSE Out(ins.rows, Nil, ins.ids,
                 tp \o (IF "AfterCreate" \in impl THEN Loop("AfterCreate", n) ELSE <<>>),
                 IF "AfterCreate" \in impl /\ aFails # {}
                 THEN Fail("AfterCreate", CHOOSE i \in aFails : \A j \in aFails : i <= j, herr)
                 ELSE NoFail, Nil)

(***************************************************************************)
(* The query compiler (buildQuery, applyCondition, applyHaving).  A        *)
(* condition is a gpa.BasicCondition{FieldName, Op, Val} or a variant the  *)
(* compiler does not know; an option adds itself to the gpa.Query          *)
(* accumulator; the compiled query is the statement the *gorm.DB chain     *)
(* holds: its clauses, each predicate a text with its bound values, and    *)
(* the builder calls that produced it, in the order they were made.        *)
(***************************************************************************)
Operators ==
    {"OpEqual", "OpNotEqual", "OpGreaterThan", "OpGreaterThanOrEqual", "OpLessThan",
     "OpLessThanOrEqual", "OpLike", "OpNotLike", "OpIn", "OpNotIn", "OpIsNull", "OpIsNotNull"}

\* an operator value outside the enumerated set
OpUnknown == "OpBetween"

BasicCondition(field, op, val) == [variant |-> "basic", field |-> field, op |-> op, val |-> val]

\* a condition of another variant (a conjunction / disjunction of conditions)
CompositeCondition(logic) == [variant |-> "composite", logic |-> logic]

\* a predicate handed to db.Where / db.Having: the query text and its arguments
Pred(text, args) == [text |-> text, args |-> args]

\* the statement of a fresh r.db
EmptyStatement ==
    [where |-> <<>>, selects |-> <<>>, order |-> <<>>, limit |-> <<>>, offset |-> <<>>,
     joins |-> <<>>, preloads |-> <<>>, group |-> <<>>, having |-> <<>>, distinct |-> FALSE,
     calls |-> <<>>]

\* db.Where(query, args...)
dbWhere(db, text, args) ==
    [db EXCEPT !.where = Append(@, Pred(text, args)), !.calls = Append(@, "Where")]

\* db.Having(query, args...)
dbHaving(db, text, args) ==
    [db EXCEPT !.having = Append(@, Pred(text, args)), !.calls = Append(@, "Having")]

\* applyCondition that compiles every basic condition as an equality
applyConditionEqualOnly(db, cond) ==
    IF cond.variant = "basic" THEN dbWhere(db, cond.field \o " = ?", <<cond.val>>) ELSE db

\* applyCondition that compiles a condition of an unknown variant to a
\* predicate no row satisfies
applyConditionFailsClosed(db, cond) ==
    IF cond.variant = "basic" THEN dbWhere(db, cond.field \o " = ?", <<cond.val>>)
    ELSE dbWhere(db, "1 = 0", <<>>)

\* applyCondition that writes the value into the query text
applyConditionInline(db, cond) ==
    IF cond.variant = "basic"
    THEN dbWhere(db, cond.field \o " = " \o ToString(cond.val), <<>>)
    ELSE db

applyCondition(db, cond) ==
    IF cond.variant = "basic"
    THEN LET field == cond.field
             operator == cond.op
             value == cond.val
         IN  CASE operator = "OpEqual" -> dbWhere(db, field \o " = ?", <<value>>)
               [] operator = "OpNotEqual" -> dbWhere(db, field \o " != ?", <<value>>)
               [] operator = "OpGreaterThan" -> dbWhere(db, field \o " > ?", <<value>>)
               [] operator = "OpGreaterThanOrEqual" -> dbWhere(db, field \o " >= ?", <<value>>)
               [] operator = "OpLessThan" -> dbWhere(db, field \o " < ?", <<value>>)
               [] operator = "OpLessThanOrEqual" -> dbWhere(db, field \o " <= ?", <<value>>)
               [] operator = "OpLike" -> dbWhere(db, field \o " LIKE ?", <<value>>)
               [] operator = "OpNotLike" -> dbWhere(db, field \o " NOT LIKE ?", <<value>>)
               [] operator = "OpIn" -> dbWhere(db, field \o " IN ?", <<value>>)
               [] operator = "OpNotIn" -> dbWhere(db, field \o " NOT IN ?", <<value>>)
               [] operator = "OpIsNull" -> dbWhere(db, field \o " IS NULL", <<>>)
               [] operator = "OpIsNotNull" -> dbWhere(db, field \o " IS NOT NULL", <<>>)
               [] OTHER -> dbWhere(db, field \o " = ?", <<value>>)
    ELSE db

\* applyHaving that knows every operator applyCondition knows
applyHavingAllOperators(db, cond) ==
    LET w == applyCondition(EmptyStatement, cond).where
    IN  IF w = <<>> THEN db ELSE dbHaving(db, w[1].text, w[1].args)

applyHaving(db, cond) ==
    IF cond.variant = "basic"
    THEN LET field == cond.field
             operator == cond.op
             value == cond.val
         IN  CASE operator = "OpEqual" -> dbHaving(db, field \o " = ?", <<value>>)
               [] operator = "OpNotEqual" -> dbHaving(db, field \o " != ?", <<value>>)
               [] operator = "OpGreaterThan" -> dbHaving(db, field \o " > ?", <<value>>)
               [] operator = "OpGreaterThanOrEqual" -> dbHaving(db, field \o " >= ?", <<value>>)
               [] operator = "OpLessThan" -> dbHaving(db, field \o " < ?", <<value>>)
               [] operator = "OpLessThanOrEqual" -> dbHaving(db, field \o " <= ?", <<value>>)
               [] OTHER -> dbHaving(db, field \o " = ?", <<value>>)
    ELSE db

\* the gpa.Query accumulator, empty: an absent Limit / Offset is <<>>
EmptyQuery ==
    [Conditions |-> <<>>, Fields |-> <<>>, Orders |-> <<>>, Limit |-> <<>>, Offset |-> <<>>,
     Joins |-> <<>>, Preloads |-> <<>>, Groups |-> <<>>, Having |-> <<>>, Distinct |-> FALSE]

\* the query options (gpa.Where, gpa.OrderBy, ...)
Where(cond) == [kind |-> "Where", cond |-> cond]

OrderBy(field, direction) == [kind |-> "OrderBy", field |-> field, direction |-> direction]

Limit(n) == [kind |-> "Limit", n |-> n]

Offset(n) == [kind |-> "Offset", n |-> n]

Select(fields) == [kind |-> "Select", fields |-> fields]

Preload(relations) == [kind |-> "Preload", relations |-> relations]

Join(type, table, alias, on) == [kind |-> "Join", type |-> type, table |-> table, alias |-> alias, on |-> on]

GroupBy(fields) == [kind |-> "GroupBy", fields |-> fields]

Having(cond) == [kind |-> "Having", cond |-> cond]

Distinct == [kind |-> "Distinct"]

\* opt.Apply(query)
Apply(opt, query) ==
    CASE opt.kind = "Where" -> [query EXCEPT !.Conditions = Append(@, opt.cond)]
      [] opt.kind = "OrderBy" -> [query EXCEPT !.Orders = Append(@, [Field |-> opt.field, Direction |-> opt.direction])]
      [] opt.kind = "Limit" -> [query EXCEPT !.Limit = <<opt.n>>]
      [] opt.kind = "Offset" -> [query EXCEPT !.Offset = <<opt.n>>]
      [] opt.kind = "Select" -> [query EXCEPT !.Fields = @ \o opt.fields]
      [] opt.kind = "Preload" -> [query EXCEPT !.Preloads = @ \o opt.relations]
      [] opt.kind = "Join" -> [query EXCEPT !.Joins = Append(@, [Type |-> opt.type, Table |-> opt.table,
                                                                  Alias |-> opt.alias, Condition |-> opt.on])]
      [] opt.kind = "GroupBy" -> [query EXCEPT !.Groups = @ \o opt.fields]
      [] opt.kind = "Having" -> [query EXCEPT !.Having = Append(@, opt.cond)]
      [] opt.kind = "Distinct" -> [query EXCEPT !.Distinct = TRUE]

\* for _, opt := range opts { opt.Apply(query) }
RECURSIVE ApplyOptions(_, _)
ApplyOptions(opts, query) ==
    IF opts = <<>> THEN query ELSE ApplyOptions(Tail(opts), Apply(Head(opts), query))

\* a chain call that adds v to the clause named c
Chain1(db, c, v, call) ==
    [db EXCEPT ![c] = Append(@, v), !.calls = Append(@, call)]

\* joinClause of one join
JoinClause(join) ==
    join.Type \o " JOIN " \o join.Table
        \o (IF join.Alias # "" THEN " AS " \o join.Alias ELSE "")
        \o (IF join.Condition # "" THEN " ON " \o join.Condition ELSE "")

\* the loops of buildQuery: each applies one builder call per element, in order
RECURSIVE ApplyConditions(_, _)
ApplyConditions(db, conditions) ==
    IF conditions = <<>> THEN db
    ELSE ApplyConditions(applyCondition(db, Head(conditions)), Tail(conditions))

RECURSIVE ApplyOrders(_, _)
ApplyOrders(db, orders) ==
    IF orders = <<>> THEN db
    ELSE ApplyOrders(Chain1(db, "order", Head(orders).Field \o " " \o Head(orders).Direction, "Order"),
                     Tail(orders))

RECURSIVE ApplyJoins(_, _)
ApplyJoins(db, joins) ==
    IF joins = <<>> THEN db
    ELSE ApplyJoins(Chain1(db, "joins", JoinClause(Head(joins)), "Joins"), Tail(joins))

RECURSIVE ApplyPreloads(_, _)
ApplyPreloads(db, preloads) ==
    IF preloads = <<>> THEN db
    ELSE ApplyPreloads(Chain1(db, "preloads", Head(preloads), "Preload"), Tail(preloads))

RECURSIVE ApplyGroups(_, _)
ApplyGroups(db, groups) ==
    IF groups = <<>> THEN db
    ELSE ApplyGroups(Chain1(db, "group", Head(groups), "Group"), Tail(groups))

RECURSIVE ApplyHavings(_, _)
ApplyHavings(db, havings) ==
    IF havings = <<>> THEN db
    ELSE ApplyHavings(applyHaving(db, Head(havings)), Tail(havings))

\* buildQuery that makes the builder call of each option as it comes,
\* without collecting the options by kind first
RECURSIVE buildQueryInCallerOrder(_)
buildQueryInCallerOrder(opts) ==
    IF opts = <<>> THEN EmptyStatement
    ELSE LET db == buildQueryInCallerOrder(SubSeq(opts, 1, Len(opts) - 1))
             opt == opts[Len(opts)]
         IN  CASE opt.kind = "Where" -> applyCondition(db, opt.cond)
               [] opt.kind = "OrderBy" -> Chain1(db, "order", opt.field \o " " \o opt.direction, "Order")
               [] opt.kind = "Limit" -> [db EXCEPT !.limit = <<opt.n>>, !.calls = Append(@, "Limit")]
               [] opt.kind = "Offset" -> [db EXCEPT !.offset = <<opt.n>>, !.calls = Append(@, "Offset")]
               [] opt.kind = "Select" -> [db EXCEPT !.selects = opt.fields, !.calls = Append(@, "Select")]
               [] opt.kind = "Preload" -> ApplyPreloads(db, opt.relations)
               [] opt.kind = "Join" ->
                      Chain1(db, "joins", JoinClause([Type |-> opt.type, Table |-> opt.table,
                                                      Alias |-> opt.alias, Condition |-> opt.on]), "Joins")
               [] opt.kind = "GroupBy" -> ApplyGroups(db, opt.fields)
               [] opt.kind = "Having" -> applyHaving(db, opt.cond)
               [] opt.kind = "Distinct" -> [db EXCEPT !.distinct = TRUE, !.calls = Append(@, "Distinct")]

\* buildQuery on a handle whose first builder call starts from statement start
buildQueryOn(start, opts) ==
    LET query == ApplyOptions(opts, EmptyQuery)
        d1 == ApplyConditions(start, query.Conditions)
        d2 == IF Len(query.Fields) > 0
              THEN [d1 EXCEPT !.selects = query.Fields, !.calls = Append(@, "Select")] ELSE d1
        d3 == ApplyOrders(d2, query.Orders)
        d4 == IF query.Limit # <<>>
              THEN [d3 EXCEPT !.limit = query.Limit, !.calls = Append(@, "Limit")] ELSE d3
        d5 == IF query.Offset # <<>>
              THEN [d4 EXCEPT !.offset = query.Offset, !.calls = Append(@, "Offset")] ELSE d4
        d6 == ApplyJoins(d5, query.Joins)
        d7 == ApplyPreloads(d6, query.Preloads)
        d8 == IF Len(query.Groups) > 0 THEN ApplyGroups(d7, query.Groups) ELSE d7
        d9 == ApplyHavings(d8, query.Having)
    IN  IF query.Distinct THEN [d9 EXCEPT !.distinct = TRUE, !.calls = Append(@, "Distinct")] ELSE d9

\* buildQuery of a repository obtained from the provider
buildQuery(opts) == buildQueryOn(EmptyStatement, opts)

(***************************************************************************)
(* The state machine: one action per repository call.  A call records what *)
(* it did (lastOp .. storeErr); the caller then takes the result (Forget)  *)
(* and is free to make the next call.                                      *)
(***************************************************************************)
\* a *gorm.DB handle: the statement it holds and its clone mode.  A builder
\* call on a handle of mode 1 (as gorm.Open returns it) starts a new,
\* empty statement; on a handle of mode 2 (WithContext, Begin) it starts a
\* copy of the handle's statement; on a handle of mode 0 (the result of a
\* builder call) it changes the handle's own statement.
Handle(stmt, clone) == [stmt |-> stmt, clone |-> clone]

\* the handle gorm.Open returns, which NewRepository stores as r.db
Open == Handle(EmptyStatement, 1)

\* db.WithContext(ctx).Transaction: the handle fn's repository is bound to
Begin(db) == Handle(IF db.clone = 1 THEN EmptyStatement ELSE db.stmt, 2)

\* the statement the first builder call on the handle starts from
ChainStart(db) == IF db.clone = 1 THEN EmptyStatement ELSE db.stmt

\* a handle that keeps the statement of the chain built from it
HandleAfterShared(db, built) == Handle(built, 0)

\* the handle after a chain of builder calls on it produced the statement built
HandleAfter(db, built) == IF db.clone = 0 THEN Handle(built, 0) ELSE db

\* the schema after the entity is migrated: its table and the index its
\* type declares (Email: uniqueIndex)
Migrated == [table |-> TRUE, indexes |-> {"idx_test_users_email"}]

\* two concurrent callers
Procs == {"p1", "p2"}

\* a caller that has made no call
NoCall == [pc |-> "idle"]

Init ==
    /\ rows = EmptyTable
    /\ dialect \in {"mysql", "sqlite"}  \* postgres and sqlserver count affected rows as sqlite does
    /\ txOpen = FALSE
    /\ txSnapshot = EmptyTable
    /\ txCreated = {}
    /\ lastOp = "none"
    /\ lastArg = Nil
    /\ lastArg2 = Nil
    /\ lastErr = Nil
    /\ lastResult = 0
    /\ trace = <<>>
    /\ prevRows = EmptyTable
    /\ hookErr = NoFail
    /\ storeErr = Nil
    /\ lastQuery = EmptyStatement
    /\ handles = <<Open>>
    /\ txCalls = {}
    /\ schema = Migrated
    /\ procs = [p \in Procs |-> NoCall]

\* no call is in progress and the result of the last one has been taken
Idle == lastOp = "none"

\* the record of a call of op(arg, arg2) that returns with outcome out
Record(op, arg, arg2, out) ==
    /\ lastOp' = op
    /\ lastArg' = arg
    /\ lastArg2' = arg2
    /\ prevRows' = rows
    /\ rows' = out.rows
    /\ lastErr' = out.err
    /\ lastResult' = out.result
    /\ trace' = out.trace
    /\ hookErr' = out.hookErr
    /\ storeErr' = out.storeErr

\* a call of op(arg, arg2) returns with outcome out, having handed the
\* statement stmt to the store and left the handles hs
ReturnQuery(op, arg, arg2, out, stmt, hs) ==
    /\ Record(op, arg, arg2, out)
    /\ lastQuery' = stmt
    /\ handles' = hs
    /\ UNCHANGED <<dialect, txOpen, txSnapshot, txCalls, schema, procs>>

\* a call that compiles no query returns
Return(op, arg, arg2, out) == ReturnQuery(op, arg, arg2, out, EmptyStatement, handles)

\* the caller takes the result of the last call
Forget ==
    /\ ~Idle
    /\ lastOp' = "none"
    /\ lastArg' = Nil
    /\ lastArg2' = Nil
    /\ lastErr' = Nil
    /\ lastResult' = 0
    /\ trace' = <<>>
    /\ prevRows' = EmptyTable
    /\ hookErr' = NoFail
    /\ storeErr' = Nil
    /\ lastQuery' = EmptyStatement
    /\ UNCHANGED <<rows, dialect, txOpen, txSnapshot, txCreated, handles, txCalls, schema, procs>>

\* outcomes a call never reads are not varied: Validate failing ends the
\* call before the Before-hook, the store and the After-hook, so these are
\* implemented or not, but what they would have returned is left out
Relevant(v, b, fault, a) ==
    /\ Failed(v) => ~Failed(b)
    /\ (Failed(v) \/ Failed(b)) => fault = Nil
    /\ (Failed(v) \/ Failed(b) \/ fault # Nil) => ~Failed(a)

\* Create(ctx, entity) for an entity drawn from E whose hooks behave as in H
CallCreate(E, H) ==
    /\ Idle
    /\ \E entity \in E, v \in H, b \in H, fault \in StoreOutcomes, a \in H :
        /\ Relevant(v, b, fault, a)
        /\ entity.ID = 0 => NextId(rows) \in Ids
        /\ LET out == Create(rows, entity, v, b, fault, a) IN
           /\ Return("Create", entity, Nil, out)
           /\ txCreated' = IF txOpen /\ out.err = Nil THEN txCreated \cup {out.result} ELSE txCreated

CallUpdate(E, H) ==
    /\ Idle
    /\ \E entity \in E, v \in H, b \in H, fault \in StoreOutcomes, a \in H :
        /\ Relevant(v, b, fault, a)
        /\ entity.ID = 0 => NextId(rows) \in Ids
        /\ Return("Update", entity, Nil, Update(rows, entity, v, b, fault, a))
        /\ UNCHANGED txCreated

CallUpdatePartial ==
    /\ Idle
    /\ \E id \in Ids, fault \in StoreOutcomes,
          \* the updates mapping: any subset of the columns
          updates \in {[f \in {} |-> 0]} \cup {[name |-> n] : n \in Names} \cup {[age |-> g] : g \in Ages}
                          \cup {[name |-> n, age |-> g] : n \in Names, g \in Ages} :
        /\ DOMAIN updates = {} => fault = Nil
        /\ Return("UpdatePartial", id, updates, UpdatePartial(rows, dialect, id, updates, fault))
        /\ UNCHANGED txCreated

CallDelete(H) ==
    /\ Idle
    /\ \E id \in Ids, fetchFault \in StoreOutcomes, b \in H, fault \in StoreOutcomes, a \in H :
        /\ Relevant(Nil, b, fault, a)
        /\ fetchFault # Nil => ~Failed(b) /\ fault = Nil /\ ~Failed(a)
        /\ LET out == Delete(rows, id, fetchFault, b, fault, a) IN
           /\ Return("Delete", id, Nil, out)
           /\ txCreated' = IF out.err = Nil THEN txCreated \ {id} ELSE txCreated

CallFindByID ==
    /\ Idle
    /\ \E id \in Ids, fault \in StoreOutcomes, a \in HookOutcomes :
        /\ fault # Nil \/ rows[id] = NoRow => ~Failed(a)
        /\ Return("FindByID", id, a, FindByID(rows, id, fault, a))
        /\ UNCHANGED txCreated

\* entity lists handed to CreateBatch
BatchEntity == {e \in Entity : e.name = "John Doe" /\ e.age = 30}

CallCreateBatch ==
    /\ Idle
    /\ \E entities \in UNION {[1..n -> BatchEntity] : n \in 0..MaxBatch},
          impl \in SUBSET {"Validate", "BeforeCreate", "AfterCreate"}, fault \in StoreOutcomes :
      \E vFailAt \in 0..Len(entities), bFailAt \in 0..Len(entities), aFails \in SUBSET (1..Len(entities)) :
        /\ WithinIds(rows, entities)
        /\ "Validate" \notin impl => vFailAt = 0
        /\ "BeforeCreate" \notin impl \/ vFailAt # 0 => bFailAt = 0
        /\ vFailAt # 0 \/ bFailAt # 0 \/ entities = <<>> => fault = Nil
        /\ "AfterCreate" \notin impl \/ vFailAt # 0 \/ bFailAt # 0 \/ fault # Nil => aFails = {}
        /\ LET out == CreateBatch(rows, entities, impl, vFailAt, bFailAt, fault, aFails) IN
           /\ Return("CreateBatch", entities, impl, out)
           /\ txCreated' = IF txOpen /\ out.err = Nil
                           THEN txCreated \cup {out.result[i] : i \in 1..Len(out.result)}
                           ELSE txCreated

Next ==
    \/ CallCreate(Entity, HookOutcomes)
    \/ CallCreateBatch
    \/ CallFindByID
    \/ CallUpdate(Entity, HookOutcomes)
    \/ CallUpdatePartial
    \/ CallDelete(HookOutcomes)
    \/ Forget

Spec == Init /\ [][Next]_vars

(***************************************************************************)
(* Transaction(ctx, fn): db.Transaction begins a store transaction, runs   *)
(* fn on a repository bound to it, rolls back when fn returns an error and *)
(* commits otherwise; a failed commit rolls back as well.  snapshot is the *)
(* table at begin, work the table as fn left it.                           *)
(***************************************************************************)
Step(name) == Ev(name, 1)

\* Transaction that passes fn's error through convertGormError
TransactionConverts(snapshot, work, beginFault, fnErr, commitFault) ==
    IF beginFault # Nil
    THEN Out(snapshot, beginFault, snapshot, <<Step("begin")>>, NoFail, beginFault)
    ELSE IF fnErr # Nil
    THEN Out(snapshot, convertGormError(fnErr), work, <<Step("begin"), Step("fn"), Step("rollback")>>, NoFail, Nil)
    ELSE IF commitFault # Nil
    THEN Out(snapshot, commitFault, work,
             <<Step("begin"), Step("fn"), Step("commit"), Step("rollback")>>, NoFail, commitFault)
    ELSE Out(work, Nil, work, <<Step("begin"), Step("fn"), Step("commit")>>, NoFail, Nil)

\* Transaction that commits whatever fn returns
TransactionAlwaysCommits(snapshot, work, beginFault, fnErr, commitFault) ==
    IF beginFault # Nil
    THEN Out(snapshot, beginFault, snapshot, <<Step("begin")>>, NoFail, beginFault)
    ELSE IF commitFault # Nil
    THEN Out(snapshot, commitFault, work,
             <<Step("begin"), Step("fn"), Step("commit"), Step("rollback")>>, NoFail, commitFault)
    ELSE Out(work, fnErr, work, <<Step("begin"), Step("fn"), Step("commit")>>, NoFail, Nil)

Transaction(snapshot, work, beginFault, fnErr, commitFault) ==
    IF beginFault # Nil
    THEN Out(snapshot, beginFault, snapshot, <<Step("begin")>>, NoFail, beginFault)
    ELSE IF fnErr # Nil
    THEN Out(snapshot, fnErr, work, <<Step("begin"), Step("fn"), Step("rollback")>>, NoFail, Nil)
    ELSE IF commitFault # Nil
    THEN Out(snapshot, commitFault, work,
             <<Step("begin"), Step("fn"), Step("commit"), Step("rollback")>>, NoFail, commitFault)
    ELSE Out(work, Nil, work, <<Step("begin"), Step("fn"), Step("commit")>>, NoFail, Nil)

\* Transaction is called: the store begins a transaction, or fails to
TransactionBegin ==
    /\ Idle
    /\ ~txOpen
    /\ \E beginFault \in {Nil, ErrDriver} :
          IF beginFault # Nil
          THEN /\ Return("Transaction", Nil, Nil, Transaction(rows, rows, beginFault, Nil, Nil))
               /\ UNCHANGED txCreated
          ELSE /\ txOpen' = TRUE
               /\ txSnapshot' = rows
               /\ txCreated' = {}
               /\ handles' = <<Begin(Head(handles))>> \o handles
               /\ txCalls' = {}
               /\ UNCHANGED <<rows, dialect, lastOp, lastArg, lastArg2, lastErr, lastResult,
                              trace, prevRows, hookErr, storeErr, lastQuery, schema, procs>>

\* fn returns fnErr and Transaction commits or rolls back and returns
TransactionReturn ==
    /\ Idle
    /\ txOpen
    /\ \E commitFault \in {Nil, ErrDriver},
          \* what fn may return: nil, a classified error it raises itself, or an unclassified error
          fnErr \in {Nil, NewError("Validation", "test error"),
                     GPAError("Database", "database error", ErrDriver), ErrRecordNotFound, ErrDriver} :
          /\ fnErr # Nil => commitFault = Nil
          /\ LET out == Transaction(txSnapshot, rows, Nil, fnErr, commitFault) IN
             /\ lastOp' = "Transaction"
             /\ lastArg' = fnErr
             /\ lastArg2' = Nil
             /\ prevRows' = txSnapshot
             /\ rows' = out.rows
             /\ lastErr' = out.err
             /\ lastResult' = out.result
             /\ trace' = out.trace
             /\ hookErr' = out.hookErr
             /\ storeErr' = out.storeErr
             /\ txOpen' = FALSE
             /\ lastQuery' = EmptyStatement
             /\ handles' = Tail(handles)
             /\ UNCHANGED <<dialect, txSnapshot, txCreated, txCalls, schema, procs>>

\* Rollback() that rolls the store transaction back to its beginning
RollbackUndoes(db, snapshot) == Out(snapshot, Nil, 0, <<Step("rollback")>>, NoFail, Nil)

\* Transaction.Commit() and Transaction.Rollback() on the handle fn is given
\* (db: the table as fn sees it, snapshot: the table at begin)
Commit(db, snapshot) == Out(db, Nil, 0, <<>>, NoFail, Nil)

Rollback(db, snapshot) == Out(db, Nil, 0, <<>>, NoFail, Nil)

\* fn calls tx.Commit()
CallCommit ==
    /\ Idle
    /\ txOpen
    /\ Record("Commit", Nil, Nil, Commit(rows, txSnapshot))
    /\ txCalls' = txCalls \cup {"Commit"}
    /\ lastQuery' = EmptyStatement
    /\ UNCHANGED <<dialect, txOpen, txSnapshot, txCreated, handles, schema, procs>>

\* fn calls tx.Rollback()
CallRollback ==
    /\ Idle
    /\ txOpen
    /\ Record("Rollback", Nil, Nil, Rollback(rows, txSnapshot))
    /\ txCalls' = txCalls \cup {"Rollback"}
    /\ lastQuery' = EmptyStatement
    /\ UNCHANGED <<dialect, txOpen, txSnapshot, txCreated, handles, schema, procs>>

\* the entities of the transaction runs: a type that implements no hook
TxEntity == {e \in Entity : e.name = "John Doe"}

InitTx == Init /\ dialect = "sqlite"

NextTx ==
    \/ TransactionBegin
    \/ TransactionReturn
    \/ CallCommit
    \/ CallRollback
    \/ CallCreate(TxEntity, {Absent})
    \/ CallUpdate(TxEntity, {Absent})
    \/ CallDelete({Absent})
    \/ Forget

SpecTx == InitTx /\ [][NextTx]_vars

(***************************************************************************)
(* The error classifier on its own: convertGormError applied to an error,  *)
(* and applied again to its own result (lastResult).                       *)
(***************************************************************************)
RawErrs == {ErrRecordNotFound, ErrDuplicatedKey, ErrDriver, Raw("hook")}

PlainErrs == RawErrs \cup {Wrap(e) : e \in RawErrs}

ErrorInputs ==
    {Nil} \cup PlainErrs
        \cup {GPAError(t, m, c) : t \in ErrorTypes, m \in {"record not found", "test error"}, c \in {Nil} \cup PlainErrs}
        \cup {Wrap(NewError(t, "test error")) : t \in ErrorTypes}

Classify ==
    /\ Idle
    /\ \E x \in ErrorInputs :
          /\ Return("convertGormError", x, Nil,
                    Out(rows, convertGormError(x), convertGormError(convertGormError(x)), <<>>, NoFail, Nil))
          /\ UNCHANGED txCreated

NextClassify ==
    \/ Classify
    \/ Forget

SpecClassify == Init /\ [][NextClassify]_vars

(***************************************************************************)
(* The compiler on its own: buildQuery applied to an option sequence.      *)
(***************************************************************************)
\* longest option sequence of mixed kinds handed to the compiler
MaxOpts == 3

CondFields == {"age", "id"}

CondValues == {30, 31}

\* every operator, known or not, on every field and value
BasicConditions ==
    {BasicCondition(f, op, v) : f \in CondFields, op \in Operators \cup {OpUnknown}, v \in CondValues}

\* options of every kind, two or more of the kinds whose order matters
MixOpts ==
    {Where(BasicCondition("age", "OpEqual", 30)), Where(BasicCondition("age", "OpEqual", 31)),
     Where(BasicCondition("id", "OpGreaterThan", 30)), Where(CompositeCondition("OR")),
     OrderBy("age", "ASC"), OrderBy("name", "DESC"), Limit(1), Limit(2), Offset(1),
     Select(<<"name">>), Preload(<<"Profile">>),
     Join("LEFT", "profiles", "p", "p.user_id = users.id"), Join("INNER", "orders", "", ""),
     GroupBy(<<"age">>), GroupBy(<<"name">>),
     Having(BasicCondition("age", "OpGreaterThan", 30)), Having(BasicCondition("age", "OpLike", 31)),
     Having(CompositeCondition("OR")), Distinct}

QueryInputs ==
    {<<Where(c)>> : c \in BasicConditions} \cup {<<Having(c)>> : c \in BasicConditions}
        \cup UNION {[1..n -> MixOpts] : n \in 0..MaxOpts}

\* r.buildQuery(opts...)
CallBuildQuery ==
    /\ Idle
    /\ \E opts \in QueryInputs :
          /\ Return("buildQuery", opts, Nil, Out(rows, Nil, buildQuery(opts), <<>>, NoFail, Nil))
          /\ UNCHANGED txCreated

NextCompile ==
    \/ CallBuildQuery
    \/ Forget

SpecCompile == InitTx /\ [][NextCompile]_vars

(***************************************************************************)
(* FindAll and Query: the compiled query executed by the store.  The store *)
(* reads the statement it is handed: each WHERE predicate by its text and  *)
(* bound value, each ORDER BY term by its text, and the limit.  Rows that  *)
(* the ORDER BY terms do not order come back in any order.                 *)
(***************************************************************************)
\* the entity scanned from the row with primary key id
EntityOf(db, id) == [ID |-> id, name |-> db[id].name, age |-> db[id].age]

\* the value of a numeric column of a row
Column(e, col) == IF col = "id" THEN e.ID ELSE e.age

\* the position of a column value in the column's sort order
SortKey(e, col) ==
    CASE col = "id" -> e.ID
      [] col = "age" -> e.age
      [] col = "name" -> IF e.name = "John Doe" THEN 1 ELSE 2

\* the row satisfies the predicate; the columns are NOT NULL
Matches(e, pred) ==
    \E col \in {"id", "age"} :
        LET x == Column(e, col) IN
        \/ pred.text = col \o " = ?" /\ x = pred.args[1]
        \/ pred.text = col \o " != ?" /\ x # pred.args[1]
        \/ pred.text = col \o " > ?" /\ x > pred.args[1]
        \/ pred.text = col \o " >= ?" /\ x >= pred.args[1]
        \/ pred.text = col \o " < ?" /\ x < pred.args[1]
        \/ pred.text = col \o " <= ?" /\ x <= pred.args[1]
        \/ pred.text = col \o " IS NOT NULL"

\* the sort key an ORDER BY term gives a row (descending: the negated position)
TermKey(e, term) ==
    LET col == CHOOSE c \in {"id", "age", "name"} : term \in {c \o " ASC", c \o " DESC"}
    IN  IF term = col \o " ASC" THEN SortKey(e, col) ELSE 0 - SortKey(e, col)

\* e1 sorts strictly before e2 under the ORDER BY terms, the first the primary key
RECURSIVE SortsBefore(_, _, _)
SortsBefore(e1, e2, terms) ==
    IF terms = <<>> THEN FALSE
    ELSE LET k1 == TermKey(e1, Head(terms))
             k2 == TermKey(e2, Head(terms))
         IN  k1 < k2 \/ (k1 = k2 /\ SortsBefore(e1, e2, Tail(terms)))

\* the arrangements of a set of rows
Arrangements(S) ==
    {f \in [1..Cardinality(S) -> S] : \A i, j \in 1..Cardinality(S) : i # j => f[i] # f[j]}

\* the first rows of res a (positive) LIMIT lets through
Limited(res, limit) ==
    IF limit = <<>> \/ limit[1] >= Len(res) THEN res ELSE SubSeq(res, 1, limit[1])

\* a store that cuts the rows to the limit before it sorts them
FindResultsLimitFirst(db, stmt) ==
    LET all == {EntityOf(db, i) : i \in UsedIds(db)}
        matching == {e \in all : \A k \in 1..Len(stmt.where) : Matches(e, stmt.where[k])}
        cut == {{res[i] : i \in 1..Len(res)} : res \in {Limited(r, stmt.limit) : r \in Arrangements(matching)}}
    IN  UNION {{res \in Arrangements(S) :
                   \A i, j \in 1..Len(res) : i < j => ~SortsBefore(res[j], res[i], stmt.order)} : S \in cut}

\* query.Find(&entities): the results the store can return for the statement
FindResults(db, stmt) ==
    LET all == {EntityOf(db, i) : i \in UsedIds(db)}
        matching == {e \in all : \A k \in 1..Len(stmt.where) : Matches(e, stmt.where[k])}
        sorted == {res \in Arrangements(matching) :
                      \A i, j \in 1..Len(res) : i < j => ~SortsBefore(res[j], res[i], stmt.order)}
    IN  {Limited(res, stmt.limit) : res \in sorted}

FindAll(db, opts, found, fault) ==
    IF convertGormError(fault) # Nil
    THEN Out(db, convertGormError(fault), <<>>, <<Ev("fetch", 1)>>, NoFail, fault)
    ELSE Out(db, Nil, found, <<Ev("fetch", 1)>>, NoFail, Nil)

Query(db, opts, found, fault) ==
    IF convertGormError(fault) # Nil
    THEN Out(db, convertGormError(fault), <<>>, <<Ev("fetch", 1)>>, NoFail, fault)
    ELSE Out(db, Nil, found, <<Ev("fetch", 1)>>, NoFail, Nil)

\* db.First(&entity): ordered by the primary key after the statement's own
\* terms, cut to one row
FirstStatement(stmt) == [stmt EXCEPT !.order = Append(@, "id ASC"), !.limit = <<1>>]

QueryOne(db, opts, found, fault) ==
    LET err == IF fault # Nil THEN fault
               ELSE IF found = <<>> THEN ErrRecordNotFound ELSE Nil
    IN  IF convertGormError(err) # Nil
        THEN Out(db, convertGormError(err), NoRow, <<Ev("fetch", 1)>>, NoFail, err)
        ELSE Out(db, Nil, found[1], <<Ev("fetch", 1)>>, NoFail, Nil)

\* the rows SELECT count(*) counts for the statement
Counted(db, stmt) ==
    {i \in UsedIds(db) : \A k \in 1..Len(stmt.where) : Matches(EntityOf(db, i), stmt.where[k])}

Count(db, query, fault) ==
    IF fault # Nil
    THEN Out(db, convertGormError(fault), 0, <<Ev("fetch", 1)>>, NoFail, fault)
    ELSE Out(db, Nil, Cardinality(Counted(db, query)), <<Ev("fetch", 1)>>, NoFail, Nil)

\* Exists that reports whether the table holds any row
ExistsAnyRow(db, query, fault) ==
    IF fault # Nil
    THEN Out(db, convertGormError(fault), FALSE, <<Ev("fetch", 1)>>, NoFail, fault)
    ELSE Out(db, Nil, UsedIds(db) # {}, <<Ev("fetch", 1)>>, NoFail, Nil)

Exists(db, query, fault) ==
    LET c == Count(db, query, fault)
    IN  Out(c.rows, c.err, c.result > 0, c.trace, c.hookErr, c.storeErr)

\* gorm refuses a DELETE whose statement has no WHERE clause
ErrMissingWhereClause == Raw("gorm.ErrMissingWhereClause")

\* query.Delete(&entity) with a zero-valued entity: the statement's WHERE
\* predicates alone select the rows
StoreDeleteWhere(db, stmt, fault) ==
    IF stmt.where = <<>> THEN [err |-> ErrMissingWhereClause, rows |-> db]
    ELSE IF fault # Nil THEN [err |-> fault, rows |-> db]
    ELSE [err |-> Nil, rows |-> [i \in Ids |-> IF i \in Counted(db, stmt) THEN NoRow ELSE db[i]]]

\* DeleteByCondition that spares the row of the lowest primary key it selects
DeleteByConditionSparesOne(db, start, condition, fault) ==
    LET query == applyCondition(start, condition)
        del == StoreDeleteWhere(db, query, fault)
        hit == Counted(db, query)
        keep == IF hit = {} THEN {} ELSE {CHOOSE i \in hit : \A j \in hit : i <= j}
    IN  Out([i \in Ids |-> IF i \in keep THEN db[i] ELSE del.rows[i]], convertGormError(del.err), 0,
            <<Ev("persist", 1)>>, NoFail, IF del.err = ErrMissingWhereClause THEN Nil ELSE del.err)

\* DeleteByCondition that runs the DELETE whatever its statement
DeleteByConditionUnguarded(db, start, condition, fault) ==
    LET query == applyCondition(start, condition)
    IN  IF fault # Nil
        THEN Out(db, convertGormError(fault), 0, <<Ev("persist", 1)>>, NoFail, fault)
        ELSE Out([i \in Ids |-> IF i \in Counted(db, query) THEN NoRow ELSE db[i]], Nil, 0,
                 <<Ev("persist", 1)>>, NoFail, Nil)

\* DeleteByCondition on a handle whose chains start from statement start
DeleteByCondition(db, start, condition, fault) ==
    LET query == applyCondition(start, condition)
        del == StoreDeleteWhere(db, query, fault)
    IN  Out(del.rows, convertGormError(del.err), 0, <<Ev("persist", 1)>>, NoFail,
            IF del.err = ErrMissingWhereClause THEN Nil ELSE del.err)

\* the options handed to FindAll and Query: a filter on age, an ordering, a
\* positive limit
ExecWheres ==
    {Where(BasicCondition("age", op, v)) :
        op \in {"OpEqual", "OpNotEqual", "OpGreaterThan", "OpGreaterThanOrEqual", "OpLessThan",
                "OpLessThanOrEqual", "OpIsNull", "OpIsNotNull", OpUnknown},
        v \in CondValues}

ExecOrders == {OrderBy(f, d) : f \in {"age", "name"}, d \in {"ASC", "DESC"}}

\* no option, one option, two orderings, or a filter with an ordering and a limit
ExecInputs ==
    {<<>>} \cup {<<o>> : o \in ExecWheres \cup ExecOrders \cup {Limit(1), Limit(2)} \cup {Where(CompositeCondition("OR"))}}
        \cup {<<o1, o2>> : o1 \in ExecOrders, o2 \in ExecOrders}
        \cup {<<w, o, l>> : w \in ExecWheres, o \in ExecOrders, l \in {Limit(1), Limit(2)}}

\* r.buildQuery(opts...) on the handle the repository holds
Compiled(opts) == buildQueryOn(ChainStart(Head(handles)), opts)

\* the handles after a chain that ended in statement stmt was built from the first
HandlesAfter(stmt) == <<HandleAfter(Head(handles), stmt)>> \o Tail(handles)

\* FindAll(ctx, opts...) on entities whose type implements AfterFind (a = Nil) or not
CallFindAll(I) ==
    /\ Idle
    /\ \E opts \in I, fault \in StoreOutcomes, a \in {Absent, Nil} :
       \E found \in IF fault = Nil THEN FindResults(rows, Compiled(opts)) ELSE {<<>>} :
          /\ ReturnQuery("FindAll", opts, a, FindAll(rows, opts, found, fault),
                         Compiled(opts), HandlesAfter(Compiled(opts)))
          /\ UNCHANGED txCreated

CallQuery(I) ==
    /\ Idle
    /\ \E opts \in I, fault \in StoreOutcomes, a \in {Absent, Nil} :
       \E found \in IF fault = Nil THEN FindResults(rows, Compiled(opts)) ELSE {<<>>} :
          /\ ReturnQuery("Query", opts, a, Query(rows, opts, found, fault),
                         Compiled(opts), HandlesAfter(Compiled(opts)))
          /\ UNCHANGED txCreated

CallQueryOne(I) ==
    /\ Idle
    /\ \E opts \in I, fault \in StoreOutcomes :
       \E found \in IF fault = Nil THEN FindResults(rows, FirstStatement(Compiled(opts))) ELSE {<<>>} :
          /\ ReturnQuery("QueryOne", opts, Nil, QueryOne(rows, opts, found, fault),
                         Compiled(opts), HandlesAfter(Compiled(opts)))
          /\ UNCHANGED txCreated

CallCount(I) ==
    /\ Idle
    /\ \E opts \in I, fault \in StoreOutcomes :
          /\ ReturnQuery("Count", opts, Nil, Count(rows, Compiled(opts), fault),
                         Compiled(opts), HandlesAfter(Compiled(opts)))
          /\ UNCHANGED txCreated

CallExists(I) ==
    /\ Idle
    /\ \E opts \in I, fault \in StoreOutcomes :
          /\ ReturnQuery("Exists", opts, Nil, Exists(rows, Compiled(opts), fault),
                         Compiled(opts), HandlesAfter(Compiled(opts)))
          /\ UNCHANGED txCreated

CallDeleteByCondition ==
    /\ Idle
    /\ \E fault \in StoreOutcomes,
          \* the filters on age and id of the operators the store model evaluates, and composite conditions
          condition \in {BasicCondition(f, op, v) :
                            f \in CondFields,
                            op \in {"OpEqual", "OpNotEqual", "OpGreaterThan", "OpGreaterThanOrEqual",
                                    "OpLessThan", "OpLessThanOrEqual", "OpIsNull", "OpIsNotNull", OpUnknown},
                            v \in CondValues \cup Ids}
                           \cup {CompositeCondition("AND"), CompositeCondition("OR")} :
          /\ ReturnQuery("DeleteByCondition", condition, Nil,
                         DeleteByCondition(rows, ChainStart(Head(handles)), condition, fault),
                         applyCondition(ChainStart(Head(handles)), condition), handles)
          /\ UNCHANGED txCreated

NextQuery ==
    \/ CallCreate(Entity, {Absent})
    \/ CallFindByID
    \/ CallFindAll(ExecInputs)
    \/ CallQuery(ExecInputs)
    \/ CallCount(ExecInputs)
    \/ CallExists(ExecInputs)
    \/ CallDeleteByCondition
    \/ Forget

SpecQuery == InitTx /\ [][NextQuery]_vars

(***************************************************************************)
(* The retrievals of one repository and of the repository a transaction    *)
(* hands to fn, called one after another on the same handle.               *)
(***************************************************************************)
\* no option, one directive, or a filter with an ordering and a limit
HandleInputs ==
    {<<>>, <<Where(BasicCondition("age", "OpGreaterThan", 30))>>, <<Where(CompositeCondition("OR"))>>,
     <<OrderBy("age", "DESC")>>, <<Limit(1)>>, <<Offset(1)>>, <<Distinct>>,
     <<Join("INNER", "orders", "o", "o.user_id = users.id")>>, <<Preload(<<"Orders">>)>>,
     <<GroupBy(<<"age">>), Having(BasicCondition("age", "OpGreaterThan", 30))>>,
     <<Select(<<"id", "age">>), Where(BasicCondition("id", "OpLessThanOrEqual", 31)),
       OrderBy("name", "ASC"), Limit(2)>>}

NextHandle ==
    \/ TransactionBegin
    \/ TransactionReturn
    \/ CallCreate(BatchEntity, {Absent})
    \/ CallFindAll(HandleInputs)
    \/ CallQuery(HandleInputs)
    \/ CallQueryOne(HandleInputs)
    \/ CallCount(HandleInputs)
    \/ CallExists(HandleInputs)
    \/ Forget

SpecHandle == InitTx /\ [][NextHandle]_vars

(***************************************************************************)
(* Concurrent callers.  Each call is cut at its store calls: what a call   *)
(* does between two store calls (its hooks) is local to it.  The store     *)
(* executes each statement atomically.  The callers of one round make the  *)
(* same call at the same time; their steps interleave freely.              *)
(***************************************************************************)
\* "idx_" + stmt.Schema.Table + "_" + fields[0] + "_" + fields[1] + ...
RECURSIVE IndexName(_, _)
IndexName(table, fields) ==
    IF Len(fields) = 1 THEN "idx_" \o table \o "_" \o fields[1]
    ELSE IndexName(table, SubSeq(fields, 1, Len(fields) - 1)) \o "_" \o fields[Len(fields)]

\* caller p moves to call state c, leaving the table db and the schema sch
Stepped(p, c, db, sch) ==
    /\ procs' = [procs EXCEPT ![p] = c]
    /\ rows' = db
    /\ schema' = sch
    /\ UNCHANGED <<dialect, txOpen, txSnapshot, txCreated, lastOp, lastArg, lastArg2, lastErr,
                   lastResult, trace, prevRows, hookErr, storeErr, lastQuery, handles, txCalls>>

\* the callers in P call op(arg) on an entity type that implements
\* BeforeDelete and AfterDelete; before: what the call is about exists
Start ==
    /\ Idle
    /\ \A p \in Procs : procs[p].pc = "idle"
    /\ \E P \in SUBSET Procs \ {{}} :
       \E op \in {"Delete", "CreateTable", "CreateIndex"} :
       \E arg \in CASE op = "Delete" -> Ids
                    [] op = "CreateTable" -> {<<>>}
                    [] op = "CreateIndex" -> {<<"email">>, <<"age">>, <<"name", "age">>} :
          LET before == CASE op = "Delete" -> rows[arg] # NoRow
                          [] op = "CreateTable" -> schema.table
                          [] op = "CreateIndex" -> IndexName("test_users", arg) \in schema.indexes
          IN  /\ procs' = [p \in Procs |->
                              IF p \in P
                              THEN [pc |-> "start", op |-> op, arg |-> arg, before |-> before,
                                    trace |-> <<>>, err |-> Nil]
                              ELSE NoCall]
              /\ UNCHANGED <<rows, schema, dialect, txOpen, txSnapshot, txCreated, lastOp, lastArg,
                             lastArg2, lastErr, lastResult, trace, prevRows, hookErr, storeErr,
                             lastQuery, handles, txCalls>>

\* Delete: First(&entity, id), then BeforeDelete on the fetched entity
DeleteFetch(p) ==
    LET c == procs[p]
        fst == StoreFirst(rows, c.arg, Nil)
    IN  /\ c.pc = "start" /\ c.op = "Delete"
        /\ Stepped(p, IF fst.err # Nil
                      THEN [c EXCEPT !.pc = "done", !.trace = <<Ev("fetch", 1)>>,
                                     !.err = convertGormError(fst.err)]
                      ELSE [c EXCEPT !.pc = "fetched",
                                     !.trace = <<Ev("fetch", 1), Ev("BeforeDelete", 1)>>],
                   rows, schema)

\* Delete that does not look at RowsAffected
DeleteRemovedUnchecked(c, del) ==
    [c EXCEPT !.pc = "done", !.trace = @ \o <<Ev("persist", 1), Ev("AfterDelete", 1)>>]

\* Delete after Delete(&entity, id) returned del: the RowsAffected check,
\* AfterDelete, return
DeleteRemoved(c, del) ==
    IF del.rowsAffected = 0
    THEN [c EXCEPT !.pc = "done", !.trace = @ \o <<Ev("persist", 1)>>,
                   !.err = GPAError("NotFound", "entity not found", Nil)]
    ELSE [c EXCEPT !.pc = "done", !.trace = @ \o <<Ev("persist", 1), Ev("AfterDelete", 1)>>]

DeleteRemove(p) ==
    LET c == procs[p]
        del == StoreDelete(rows, c.arg, Nil)
    IN  /\ c.pc = "fetched" /\ c.op = "Delete"
        /\ Stepped(p, DeleteRemoved(c, del), del.rows, schema)

\* CreateTable: migrator.HasTable(&zero)
CreateTableCheck(p) ==
    LET c == procs[p]
    IN  /\ c.pc = "start" /\ c.op = "CreateTable"
        /\ Stepped(p, IF schema.table
                      THEN [c EXCEPT !.pc = "done", !.trace = <<Ev("HasTable", 1)>>,
                                     !.err = GPAError("Duplicate", "table already exists", Nil)]
                      ELSE [c EXCEPT !.pc = "checked", !.trace = <<Ev("HasTable", 1)>>],
                   rows, schema)

\* CreateTable: migrator.CreateTable(&zero), a plain CREATE TABLE that the
\* store refuses when the table exists
CreateTableCreate(p) ==
    LET c == procs[p]
    IN  /\ c.pc = "checked" /\ c.op = "CreateTable"
        /\ IF schema.table
           THEN Stepped(p, [c EXCEPT !.pc = "done", !.trace = @ \o <<Ev("create", 1)>>,
                                     !.err = convertGormError(Raw("table already exists"))],
                        rows, schema)
           ELSE Stepped(p, [c EXCEPT !.pc = "done", !.trace = @ \o <<Ev("create", 1)>>],
                        rows, Migrated)

\* CreateIndex: migrator.HasIndex(&zero, indexName)
CreateIndexCheck(p) ==
    LET c == procs[p]
        indexName == IndexName("test_users", c.arg)
    IN  /\ c.pc = "start" /\ c.op = "CreateIndex"
        /\ Stepped(p, IF indexName \in schema.indexes
                      THEN [c EXCEPT !.pc = "done", !.trace = <<Ev("HasIndex", 1)>>,
                                     !.err = GPAError("Duplicate", "index already exists: " \o indexName, Nil)]
                      ELSE [c EXCEPT !.pc = "checked", !.trace = <<Ev("HasIndex", 1)>>],
                   rows, schema)

\* CreateIndex: migrator.CreateIndex(&zero, indexName) creates the index of
\* that name the entity type declares; it fails when the type declares
\* none, and the store refuses it when the table is missing or the index
\* exists
CreateIndexCreate(p) ==
    LET c == procs[p]
        indexName == IndexName("test_users", c.arg)
    IN  /\ c.pc = "checked" /\ c.op = "CreateIndex"
        /\ IF indexName \notin Migrated.indexes
           THEN Stepped(p, [c EXCEPT !.pc = "done",
                                     !.err = convertGormError(Raw("failed to create index"))],
                        rows, schema)
           ELSE IF ~schema.table \/ indexName \in schema.indexes
           THEN Stepped(p, [c EXCEPT !.pc = "done", !.trace = @ \o <<Ev("create", 1)>>,
                                     !.err = convertGormError(Raw("index already exists"))],
                        rows, schema)
           ELSE Stepped(p, [c EXCEPT !.pc = "done", !.trace = @ \o <<Ev("create", 1)>>],
                        rows, [schema EXCEPT !.indexes = @ \cup {indexName}])

\* every caller of the round has returned
Returned ==
    /\ \E p \in Procs : procs[p].pc = "done"
    /\ \A p \in Procs : procs[p].pc \in {"idle", "done"}
    /\ procs' = [p \in Procs |-> NoCall]
    /\ UNCHANGED <<rows, schema, dialect, txOpen, txSnapshot, txCreated, lastOp, lastArg, lastArg2,
                   lastErr, lastResult, trace, prevRows, hookErr, storeErr, lastQuery, handles, txCalls>>

\* DropTable between rounds
DropTable ==
    /\ Idle
    /\ \A p \in Procs : procs[p].pc = "idle"
    /\ schema.table
    /\ Stepped("p1", NoCall, EmptyTable, [table |-> FALSE, indexes |-> {}])

\* DropIndex of an existing index between rounds
DropIndex ==
    /\ Idle
    /\ \A p \in Procs : procs[p].pc = "idle"
    /\ \E indexName \in schema.indexes :
          Stepped("p1", NoCall, rows, [schema EXCEPT !.indexes = @ \ {indexName}])

NextConcurrent ==
    \/ Start
    \/ \E p \in Procs : DeleteFetch(p)
    \/ \E p \in Procs : DeleteRemove(p)
    \/ \E p \in Procs : CreateTableCheck(p)
    \/ \E p \in Procs : CreateTableCreate(p)
    \/ \E p \in Procs : CreateIndexCheck(p)
    \/ \E p \in Procs : CreateIndexCreate(p)
    \/ Returned
    \/ DropTable
    \/ DropIndex
    \/ (\A p \in Procs : procs[p].pc = "idle") /\ schema.table /\ CallCreate(BatchEntity, {Absent})
    \/ Forget

SpecConcurrent == InitTx /\ [][NextConcurrent]_vars

(***************************************************************************)
(* CreateBatch on long lists.  The table is abstracted to the number of    *)
(* rows it holds (primary keys 1..stored, assigned by auto-increment) and  *)
(* the entities to their number; the entity type implements no hook.       *)
(***************************************************************************)
MaxEntities == 201

RECURSIVE Concat(_)
Concat(seqs) == IF seqs = <<>> THEN <<>> ELSE Head(seqs) \o Concat(Tail(seqs))

\* CreateBatch of n entities with zero IDs: failAt is the INSERT that fails
\* (0: none); a failure rolls every INSERT of the call back
CreateBatchN(n, stored, failAt, fault) ==
    LET slices == SubBatches(0, n)
        \* the primary keys the INSERT of each slice assigns
        writes == [j \in 1..Len(slices) |->
                      [k \in 1..(slices[j].ends - slices[j].from) |-> stored + slices[j].from + k]]
    IN  IF failAt # 0
        THEN Out(rows, convertGormError(fault),
                 [writes |-> SubSeq(writes, 1, failAt), ids |-> [k \in 1..n |-> 0], stored |-> stored],
                 Loop("persist", failAt), NoFail, fault)
        ELSE Out(rows, Nil, [writes |-> writes, ids |-> Concat(writes), stored |-> stored + n],
                 Loop("persist", Len(writes)), NoFail, Nil)

CallCreateBatchN ==
    /\ Idle
    /\ \E n \in 0..MaxEntities, stored \in {0, 7}, fault \in StoreErrs :
       \E failAt \in 0..NumWrites(n) :
          /\ Return("CreateBatch", n, stored, CreateBatchN(n, stored, failAt, fault))
          /\ UNCHANGED txCreated

NextBatch ==
    \/ CallCreateBatchN
    \/ Forget

SpecBatch == InitTx /\ [][NextBatch]_vars

(***************************************************************************)
(* GetEntityInfo: the descriptors built from the fields of the schema gorm *)
(* parsed from the entity type.                                            *)
(***************************************************************************)
MaxFields == 3

FieldNames == {"ID", "Name", "Email", "Age"}

\* the parsed schemas: fields of distinct names, in declaration order
SchemaInputs ==
    UNION {{f \in [1..n -> [Name : FieldNames, PrimaryKey : BOOLEAN]] : \A i, j \in 1..n : i # j => f[i].Name # f[j].Name} :
              n \in 0..MaxFields}

FieldInfo(field) == [Name |-> field.Name, IsPrimaryKey |-> field.PrimaryKey]

\* the loop over stmt.Schema.Fields
RECURSIVE ConvertFields(_, _)
ConvertFields(fields, info) ==
    IF fields = <<>> THEN info
    ELSE LET field == Head(fields)
             info1 == [info EXCEPT !.Fields = Append(@, FieldInfo(field))]
             info2 == IF field.PrimaryKey
                      THEN [info1 EXCEPT !.PrimaryKey = Append(@, field.Name)] ELSE info1
         IN  ConvertFields(Tail(fields), info2)

\* GetEntityInfo that keeps only the last primary key field in the list
GetEntityInfoLastKeyOnly(db, fields, parseErr) ==
    LET info == ConvertFields(fields, [Name |-> "TestUser", TableName |-> "test_users",
                                       Fields |-> <<>>, PrimaryKey |-> <<>>])
        n == Len(info.PrimaryKey)
    IN  Out(db, Nil, [info EXCEPT !.PrimaryKey = IF n = 0 THEN <<>> ELSE <<@[n]>>],
            <<>>, NoFail, Nil)

GetEntityInfo(db, fields, parseErr) ==
    IF parseErr # Nil
    THEN Out(db, convertGormError(parseErr), Nil, <<>>, NoFail, Nil)
    ELSE Out(db, Nil, ConvertFields(fields, [Name |-> "TestUser", TableName |-> "test_users",
                                            Fields |-> <<>>, PrimaryKey |-> <<>>]),
             <<>>, NoFail, Nil)

CallGetEntityInfo ==
    /\ Idle
    /\ \E fields \in SchemaInputs, parseErr \in {Nil, Raw("parse")} :
          /\ Return("GetEntityInfo", fields, parseErr, GetEntityInfo(rows, fields, parseErr))
          /\ UNCHANGED txCreated

NextEntityInfo ==
    \/ CallGetEntityInfo
    \/ Forget

SpecEntityInfo == InitTx /\ [][NextEntityInfo]_vars

(***************************************************************************)
(* Properties of the hook lifecycle.                                       *)
(***************************************************************************)
PreHooks == {"Validate", "BeforeCreate", "BeforeUpdate", "BeforeDelete"}

AfterHooks == {"AfterCreate", "AfterUpdate", "AfterDelete", "AfterFind"}

Steps(tr) == {tr[i].step : i \in 1..Len(tr)}

IsGPA(e, type) == e.kind = "gpa" /\ e.type = type

\* C1: when a pre-persistence hook of Create, Update or Delete fails, the
\* call issues no write (the table is as before the call), the failing hook
\* is the last step it executes, and it returns a Validation error whose
\* Cause is the hook's error.
C1_PreHookFailureAborts ==
    (lastOp \in {"Create", "Update", "Delete"} /\ hookErr.step \in PreHooks) =>
        /\ rows = prevRows
        /\ "persist" \notin Steps(trace)
        /\ Steps(trace) \cap AfterHooks = {}
        /\ trace[Len(trace)] = Ev(hookErr.step, 1)
        /\ IsGPA(lastErr, "Validation")
        /\ lastErr.cause = hookErr.err

\* a BeforeCreate failure on Create into a table that already holds a row
C1_Witness ==
    /\ lastOp = "Create"
    /\ hookErr.step = "BeforeCreate"
    /\ hookErr.err # Nil
    /\ prevRows # EmptyTable

\* C2: in CreateBatch a Validate failure means no BeforeCreate was invoked
\* and Validate was invoked on no entity after the failing one; a Validate
\* or BeforeCreate failure means no row persisted, a Validation error, and
\* no AfterCreate.
C2_BatchFailFast ==
    (lastOp = "CreateBatch" /\ hookErr.step \in PreHooks) =>
        /\ rows = prevRows
        /\ "persist" \notin Steps(trace)
        /\ "AfterCreate" \notin Steps(trace)
        /\ IsGPA(lastErr, "Validation")
        /\ hookErr.step = "Validate" =>
              /\ "BeforeCreate" \notin Steps(trace)
              /\ \A i \in 1..Len(trace) : trace[i].idx <= hookErr.idx
              /\ trace[Len(trace)] = Ev("Validate", hookErr.idx)

\* Validate fails on the second of two entities of a type that also
\* implements BeforeCreate
C2_Witness ==
    /\ lastOp = "CreateBatch"
    /\ hookErr.step = "Validate"
    /\ hookErr.idx = 2
    /\ "BeforeCreate" \in lastArg2

\* C3: when the post-persistence hook of Create, CreateBatch, Update,
\* Delete or FindByID fails, the call still returns success (and FindByID
\* the fetched entity) and the store change of the call is kept.
C3_AfterHookFailureSwallowed ==
    hookErr.step \in AfterHooks =>
        /\ lastErr = Nil
        /\ CASE lastOp = "Create" ->
                    /\ prevRows[lastResult] = NoRow
                    /\ rows = [prevRows EXCEPT ![lastResult] = RowOf(lastArg)]
             [] lastOp = "Update" ->
                    rows = [prevRows EXCEPT ![lastResult] = RowOf(lastArg)]
             [] lastOp = "CreateBatch" ->
                    /\ Len(lastResult) = Len(lastArg)
                    /\ \A i \in 1..Len(lastArg) :
                          /\ prevRows[lastResult[i]] = NoRow
                          /\ rows[lastResult[i]] = RowOf(lastArg[i])
             [] lastOp = "Delete" ->
                    /\ prevRows[lastArg] # NoRow
                    /\ rows = [prevRows EXCEPT ![lastArg] = NoRow]
             [] lastOp = "FindByID" ->
                    /\ rows = prevRows
                    /\ lastResult # NoRow
                    /\ lastResult = prevRows[lastArg]
             [] OTHER -> FALSE

\* AfterUpdate fails after an Update that changed a stored row
C3_Witness ==
    /\ lastOp = "Update"
    /\ hookErr.step = "AfterUpdate"
    /\ prevRows[lastResult] # NoRow
    /\ rows # prevRows

(***************************************************************************)
(* Properties of Transaction.                                              *)
(***************************************************************************)
\* C4: Transaction issues the commit if and only if fn returns no error.
\* When fn returns nil and the store commits, the table is as fn left it and
\* every row fn created through the transactional handle (and did not
\* delete again) is stored; when fn returns an error the table is exactly
\* the one from before the transaction began.
C4_CommitIffFnSucceeds ==
    (lastOp = "Transaction" /\ Step("fn") \in {trace[i] : i \in 1..Len(trace)}) =>
        /\ lastArg = Nil <=> "commit" \in Steps(trace)
        /\ (lastArg = Nil /\ storeErr = Nil) =>
              /\ lastErr = Nil
              /\ rows = lastResult
              /\ \A id \in txCreated : rows[id] # NoRow
        /\ lastArg # Nil => rows = prevRows

\* fn created a row next to an existing one, returned nil, and the row is stored
C4_Witness ==
    /\ lastOp = "Transaction"
    /\ lastArg = Nil
    /\ lastErr = Nil
    /\ prevRows # EmptyTable
    /\ \E id \in txCreated : prevRows[id] = NoRow /\ rows[id] # NoRow

\* C5: when fn returns an error, Transaction returns exactly that error:
\* same kind, type, message and cause.
C5_FnErrorUnchanged ==
    (lastOp = "Transaction" /\ "fn" \in Steps(trace) /\ lastArg # Nil) => lastErr = lastArg

\* fn returns the store's unclassified not-found sentinel after writing
C5_Witness ==
    /\ lastOp = "Transaction"
    /\ lastArg = ErrRecordNotFound
    /\ lastErr = ErrRecordNotFound
    /\ lastResult # prevRows

(***************************************************************************)
(* Properties of the error classifier.                                     *)
(***************************************************************************)
\* the errors of e's Unwrap chain
RECURSIVE Chain(_)
Chain(e) == IF e.kind \in {"wrap", "gpa"} THEN {e} \cup Chain(e.cause) ELSE {e}

\* C6 (as claimed): convertGormError returns every GPAError unchanged,
\* whatever its Cause, and classifying twice equals classifying once.
C6_PassThroughAndIdempotent ==
    lastOp = "convertGormError" =>
        /\ IsGPAError(lastArg) => lastErr = lastArg
        /\ lastResult = lastErr

\* C7: for an error that is not a GPAError, convertGormError returns nil
\* for nil, NotFound for a no-matching-row signal, Duplicate for a
\* key-conflict signal, and otherwise Database with the original as Cause.
C7_ClassifiesStoreErrors ==
    (lastOp = "convertGormError" /\ ~IsGPAError(lastArg)) =>
        IF lastArg = Nil THEN lastErr = Nil
        ELSE IF ErrRecordNotFound \in Chain(lastArg) THEN IsGPA(lastErr, "NotFound")
        ELSE IF ErrDuplicatedKey \in Chain(lastArg) THEN IsGPA(lastErr, "Duplicate")
        ELSE IsGPA(lastErr, "Database") /\ lastErr.cause = lastArg

\* a wrapped driver failure is classified Database and kept as the Cause
C7_Witness ==
    /\ lastOp = "convertGormError"
    /\ lastArg = Wrap(ErrDriver)
    /\ IsGPA(lastErr, "Database")
    /\ lastErr.cause = Wrap(ErrDriver)

(***************************************************************************)
(* Properties of Delete, Update and UpdatePartial.                         *)
(***************************************************************************)
\* C8: Delete of a primary key no row has leaves the table unchanged,
\* invokes neither BeforeDelete nor AfterDelete and, the store answering
\* the fetch, returns NotFound; Delete of an existing row whose hooks
\* succeed, the store executing the statements, removes exactly that row.
C8_DeleteNotFoundOrExactlyOne ==
    lastOp = "Delete" =>
        /\ prevRows[lastArg] = NoRow =>
              /\ rows = prevRows
              /\ Steps(trace) \cap {"BeforeDelete", "AfterDelete"} = {}
              /\ storeErr = ErrRecordNotFound => IsGPA(lastErr, "NotFound")
        /\ (prevRows[lastArg] # NoRow /\ storeErr = Nil /\ hookErr = NoFail) =>
              /\ lastErr = Nil
              /\ rows = [prevRows EXCEPT ![lastArg] = NoRow]

\* Delete of a missing primary key on a table that holds another row
C8_Witness ==
    /\ lastOp = "Delete"
    /\ prevRows[lastArg] = NoRow
    /\ prevRows # EmptyTable
    /\ IsGPA(lastErr, "NotFound")

\* C9 (as claimed): Update of an entity whose primary key matches no stored
\* row returns NotFound.
C9_UpdateMissingRowIsNotFound ==
    (/\ lastOp = "Update"
     /\ "persist" \in Steps(trace)
     /\ storeErr = Nil
     /\ lastArg.ID = 0 \/ prevRows[lastArg.ID] = NoRow) => IsGPA(lastErr, "NotFound")

\* C10 (as claimed): UpdatePartial returns NotFound if and only if no row
\* has the primary key, and succeeds for every updates mapping when one has.
C10_NotFoundIffNoRow ==
    (lastOp = "UpdatePartial" /\ storeErr = Nil) =>
        /\ IsGPA(lastErr, "NotFound") <=> prevRows[lastArg] = NoRow
        /\ prevRows[lastArg] # NoRow => lastErr = Nil

Rank(step) ==
    CASE step = "Validate" -> 1
      [] step \in {"BeforeCreate", "BeforeUpdate"} -> 2
      [] step = "persist" -> 3
      [] step \in {"AfterCreate", "AfterUpdate"} -> 4
      [] OTHER -> 0

\* C12: the steps of a Create or Update call occur strictly in the order
\* Validate, Before-hook, persist, After-hook (so each at most once);
\* persist is issued only when neither Validate nor the Before-hook failed,
\* and the After-hook is invoked only after a persist the store executed.
C12_LifecycleOrder ==
    lastOp \in {"Create", "Update"} =>
        /\ \A i \in 1..Len(trace) : Rank(trace[i].step) # 0 /\ trace[i].idx = 1
        /\ \A i, j \in 1..Len(trace) : i < j => Rank(trace[i].step) < Rank(trace[j].step)
        /\ Steps(trace) \subseteq
              (IF lastOp = "Create" THEN {"Validate", "BeforeCreate", "persist", "AfterCreate"}
                                   ELSE {"Validate", "BeforeUpdate", "persist", "AfterUpdate"})
        /\ "persist" \in Steps(trace) => hookErr.step \notin PreHooks
        /\ hookErr.step \in PreHooks => trace[Len(trace)].step = hookErr.step
        /\ Steps(trace) \cap AfterHooks # {} => ("persist" \in Steps(trace) /\ storeErr = Nil)
        /\ storeErr # Nil => trace[Len(trace)].step = "persist"

\* an Update whose four steps all run
C12_Witness ==
    /\ lastOp = "Update"
    /\ trace = <<Ev("Validate", 1), Ev("BeforeUpdate", 1), Ev("persist", 1), Ev("AfterUpdate", 1)>>

\* C14 (as claimed): every error a repository operation returns because the
\* store reported a failure is a GPAError of type NotFound, Duplicate,
\* Validation or Database, a failed begin or commit of Transaction included.
C14_StoreFailuresAreGPAErrors ==
    storeErr # Nil => (IsGPAError(lastErr) /\ lastErr.type \in ErrorTypes)

(***************************************************************************)
(* Properties of the query compiler.                                       *)
(***************************************************************************)
\* the operator-to-predicate mapping table
TemplateWhere(field, op) ==
    CASE op = "OpEqual" -> field \o " = ?"
      [] op = "OpNotEqual" -> field \o " != ?"
      [] op = "OpGreaterThan" -> field \o " > ?"
      [] op = "OpGreaterThanOrEqual" -> field \o " >= ?"
      [] op = "OpLessThan" -> field \o " < ?"
      [] op = "OpLessThanOrEqual" -> field \o " <= ?"
      [] op = "OpLike" -> field \o " LIKE ?"
      [] op = "OpNotLike" -> field \o " NOT LIKE ?"
      [] op = "OpIn" -> field \o " IN ?"
      [] op = "OpNotIn" -> field \o " NOT IN ?"
      [] op = "OpIsNull" -> field \o " IS NULL"
      [] op = "OpIsNotNull" -> field \o " IS NOT NULL"
      [] OTHER -> field \o " = ?"

NullChecks == {"OpIsNull", "OpIsNotNull"}

Comparisons ==
    {"OpEqual", "OpNotEqual", "OpGreaterThan", "OpGreaterThanOrEqual", "OpLessThan", "OpLessThanOrEqual"}

\* the values a WHERE predicate compiled from cond binds
BoundValues(cond) == IF cond.op \in NullChecks THEN <<>> ELSE <<cond.val>>

IsBasic(opt, kind) == opt.kind = kind /\ opt.cond.variant = "basic"

\* C15: compiling a single Where(field, op, value) yields a statement with
\* exactly one WHERE predicate and nothing else; its text is the template
\* of the mapping table for op (the Equal template for an operator outside
\* the set) and it binds exactly the one value, none for IsNull / IsNotNull.
C15_OperatorMapping ==
    (lastOp = "buildQuery" /\ Len(lastArg) = 1 /\ IsBasic(lastArg[1], "Where")) =>
        LET c == lastArg[1].cond IN
        /\ lastErr = Nil
        /\ lastResult = [EmptyStatement EXCEPT
                            !.where = <<Pred(TemplateWhere(c.field, c.op), BoundValues(c))>>,
                            !.calls = <<"Where">>]

\* Where("age", NotLike, 31) compiled
C15_Witness ==
    /\ lastOp = "buildQuery"
    /\ lastArg = <<Where(BasicCondition("age", "OpNotLike", 31))>>
    /\ lastResult.where = <<Pred("age NOT LIKE ?", <<31>>)>>

\* C16: compiling a single Having(field, op, value) yields exactly one
\* HAVING predicate and nothing else: for the six comparison operators the
\* template of the mapping table, for every other operator field = ?, in
\* both cases with the condition's value as the one bound value.
C16_HavingMapping ==
    (lastOp = "buildQuery" /\ Len(lastArg) = 1 /\ IsBasic(lastArg[1], "Having")) =>
        LET c == lastArg[1].cond
            text == IF c.op \in Comparisons THEN TemplateWhere(c.field, c.op) ELSE c.field \o " = ?"
        IN  /\ lastErr = Nil
            /\ lastResult = [EmptyStatement EXCEPT
                                !.having = <<Pred(text, <<c.val>>)>>,
                                !.calls = <<"Having">>]

\* Having("age", IsNull, 30) compiled to age = ? bound to 30
C16_Witness ==
    /\ lastOp = "buildQuery"
    /\ lastArg = <<Having(BasicCondition("age", "OpIsNull", 30))>>
    /\ lastResult.having = <<Pred("age = ?", <<30>>)>>

\* the options other than Where / Having of a condition that is not basic
Known(opt) == opt.kind \in {"Where", "Having"} => opt.cond.variant = "basic"

\* C17: a Where or Having condition of a variant other than BasicCondition
\* adds no predicate and raises no error: the compiled query is the one
\* compiled from the same options without those conditions.
C17_NonBasicIgnored ==
    lastOp = "buildQuery" =>
        /\ lastErr = Nil
        /\ lastResult = buildQuery(SelectSeq(lastArg, Known))
        /\ Len(lastResult.where) = Len(SelectSeq(lastArg, LAMBDA o : IsBasic(o, "Where")))
        /\ Len(lastResult.having) = Len(SelectSeq(lastArg, LAMBDA o : IsBasic(o, "Having")))

\* a composite Where next to a basic one, and a composite Having
C17_Witness ==
    /\ lastOp = "buildQuery"
    /\ lastArg = <<Where(CompositeCondition("OR")), Where(BasicCondition("age", "OpEqual", 30)),
                   Having(CompositeCondition("OR"))>>
    /\ lastResult.where = <<Pred("age = ?", <<30>>)>>
    /\ lastResult.having = <<>>

\* the statement without the bound values
Texts(db) ==
    [db EXCEPT !.where = [i \in DOMAIN @ |-> @[i].text], !.having = [i \in DOMAIN @ |-> @[i].text]]

\* opts with the value of every basic condition replaced by v
WithValue(opts, v) ==
    [i \in DOMAIN opts |-> IF opts[i].kind \in {"Where", "Having"} /\ opts[i].cond.variant = "basic"
                           THEN [opts[i] EXCEPT !.cond.val = v] ELSE opts[i]]

\* C18: the texts of the compiled query do not depend on the condition
\* values (they are those of the same options with every value replaced by
\* one fixed value), and each predicate binds the value of its condition.
C18_ValuesOnlyBound ==
    lastOp = "buildQuery" =>
        LET wheres == SelectSeq(lastArg, LAMBDA o : IsBasic(o, "Where"))
            havings == SelectSeq(lastArg, LAMBDA o : IsBasic(o, "Having"))
        IN  /\ \A v \in CondValues : Texts(lastResult) = Texts(buildQuery(WithValue(lastArg, v)))
            /\ lastResult.where = [i \in DOMAIN wheres |->
                    Pred(lastResult.where[i].text, BoundValues(wheres[i].cond))]
            /\ lastResult.having = [i \in DOMAIN havings |->
                    Pred(lastResult.having[i].text, <<havings[i].cond.val>>)]

\* a Where and a Having that both carry the value 31
C18_Witness ==
    /\ lastOp = "buildQuery"
    /\ lastArg = <<Where(BasicCondition("age", "OpEqual", 31)), Having(BasicCondition("age", "OpLike", 31))>>
    /\ lastResult.where = <<Pred("age = ?", <<31>>)>>
    /\ lastResult.having = <<Pred("age = ?", <<31>>)>>

\* the kinds of option in the order of the compiler's steps
KindOrder ==
    <<"Where", "Select", "OrderBy", "Limit", "Offset", "Join", "Preload", "GroupBy", "Having", "Distinct">>

\* the step that makes a builder call
StepOf(call) ==
    CASE call = "Where" -> 1
      [] call = "Select" -> 2
      [] call = "Order" -> 3
      [] call = "Limit" -> 4
      [] call = "Offset" -> 5
      [] call = "Joins" -> 6
      [] call = "Preload" -> 7
      [] call = "Group" -> 8
      [] call = "Having" -> 9
      [] call = "Distinct" -> 10

\* opts collected by kind, kinds k.. in step order, the caller's order kept within a kind
RECURSIVE ByKind(_, _)
ByKind(opts, k) ==
    IF k > Len(KindOrder) THEN <<>>
    ELSE SelectSeq(opts, LAMBDA o : o.kind = KindOrder[k]) \o ByKind(opts, k + 1)

\* the concatenation of the field lists of the GroupBy options
RECURSIVE Flatten(_)
Flatten(ss) == IF ss = <<>> THEN <<>> ELSE Head(ss).fields \o Flatten(Tail(ss))

\* C20: the builder calls of a compilation are made in the step order
\* conditions, projection, ordering, limit, offset, joins, preloads,
\* grouping, having, distinct, and the compiled query is the one of the same
\* options collected by kind (so the order of options of different kinds
\* does not matter); the WHERE predicates, ORDER BY terms, joins and GROUP
\* BY terms are those of the respective options in the caller's order.
C20_FixedStepOrder ==
    lastOp = "buildQuery" =>
        LET calls == lastResult.calls
            wheres == SelectSeq(lastArg, LAMBDA o : IsBasic(o, "Where"))
            orders == SelectSeq(lastArg, LAMBDA o : o.kind = "OrderBy")
            joins == SelectSeq(lastArg, LAMBDA o : o.kind = "Join")
            groups == SelectSeq(lastArg, LAMBDA o : o.kind = "GroupBy")
        IN  /\ \A i, j \in 1..Len(calls) : i < j => StepOf(calls[i]) <= StepOf(calls[j])
            /\ lastResult = buildQuery(ByKind(lastArg, 1))
            /\ lastResult.where = [i \in DOMAIN wheres |->
                    Pred(TemplateWhere(wheres[i].cond.field, wheres[i].cond.op), BoundValues(wheres[i].cond))]
            /\ lastResult.order = [i \in DOMAIN orders |-> orders[i].field \o " " \o orders[i].direction]
            /\ lastResult.joins = [i \in DOMAIN joins |->
                    joins[i].type \o " JOIN " \o joins[i].table
                        \o (IF joins[i].alias # "" THEN " AS " \o joins[i].alias ELSE "")
                        \o (IF joins[i].on # "" THEN " ON " \o joins[i].on ELSE "")]
            /\ lastResult.group = Flatten(groups)

\* Limit, OrderBy and two Wheres given in an order that is not the step order
C20_Witness ==
    /\ lastOp = "buildQuery"
    /\ lastArg = <<Limit(1), Where(BasicCondition("id", "OpGreaterThan", 30)),
                   Where(BasicCondition("age", "OpEqual", 30))>>
    /\ lastResult.calls = <<"Where", "Where", "Limit">>
    /\ lastResult.where = <<Pred("id > ?", <<30>>), Pred("age = ?", <<30>>)>>

(***************************************************************************)
(* Properties of the retrievals.                                           *)
(***************************************************************************)
\* the number of entities a retrieval fetched
NumFetched == IF lastOp = "FindByID" THEN 1 ELSE Len(lastResult)

\* C13 (as claimed): FindByID, FindAll and Query invoke AfterFind exactly
\* once on every fetched entity when the entity type implements it, and
\* never when the fetch fails.
C13_AfterFindOnEveryFetched ==
    lastOp \in {"FindByID", "FindAll", "Query"} =>
        /\ lastErr # Nil => "AfterFind" \notin Steps(trace)
        /\ (lastErr = Nil /\ lastArg2 # Absent) =>
              \A n \in 1..NumFetched :
                  Cardinality({k \in 1..Len(trace) : trace[k] = Ev("AfterFind", n)}) = 1

\* the entity satisfies the condition, by the meaning of its operator
Satisfies(e, cond) ==
    LET x == Column(e, cond.field) IN
    CASE cond.op = "OpEqual" -> x = cond.val
      [] cond.op = "OpNotEqual" -> x # cond.val
      [] cond.op = "OpGreaterThan" -> x > cond.val
      [] cond.op = "OpGreaterThanOrEqual" -> x >= cond.val
      [] cond.op = "OpLessThan" -> x < cond.val
      [] cond.op = "OpLessThanOrEqual" -> x <= cond.val
      [] cond.op = "OpIsNull" -> FALSE
      [] cond.op = "OpIsNotNull" -> TRUE
      [] OTHER -> x = cond.val

\* C19: FindAll / Query with [Where(f, op, v), OrderBy(g, Asc), Limit(n)]
\* returns min(n, number of satisfying rows) distinct stored rows that
\* satisfy the predicate, in ascending order of g, and no satisfying row
\* left out sorts before a returned one; with no option it returns every
\* stored row once.
C19_FilterOrderLimit ==
    (lastOp \in {"FindAll", "Query"} /\ lastErr = Nil) =>
        LET all == {EntityOf(prevRows, i) : i \in UsedIds(prevRows)}
            res == lastResult
            got == {res[i] : i \in 1..Len(res)}
        IN  /\ rows = prevRows
            /\ lastArg = <<>> => (got = all /\ Len(res) = Cardinality(all))
            /\ (/\ Len(lastArg) = 3
                /\ IsBasic(lastArg[1], "Where")
                /\ lastArg[2].kind = "OrderBy" /\ lastArg[2].direction = "ASC"
                /\ lastArg[3].kind = "Limit") =>
                  LET sat == {e \in all : Satisfies(e, lastArg[1].cond)}
                      g == lastArg[2].field
                      n == lastArg[3].n
                  IN  /\ Len(res) = IF n < Cardinality(sat) THEN n ELSE Cardinality(sat)
                      /\ Cardinality(got) = Len(res)
                      /\ got \subseteq sat
                      /\ \A i, j \in 1..Len(res) : i < j => SortKey(res[i], g) <= SortKey(res[j], g)
                      /\ \A e \in sat \ got : \A i \in 1..Len(res) : SortKey(res[i], g) <= SortKey(e, g)

\* two rows satisfy age >= 30, Limit(1) keeps the one of lower age
C19_Witness ==
    /\ lastOp = "FindAll"
    /\ lastErr = Nil
    /\ lastArg = <<Where(BasicCondition("age", "OpGreaterThanOrEqual", 30)), OrderBy("age", "ASC"), Limit(1)>>
    /\ \A i \in Ids : prevRows[i] # NoRow
    /\ \E i \in Ids : prevRows[i].age = 31
    /\ Len(lastResult) = 1
    /\ lastResult[1].age = 30

(***************************************************************************)
(* Properties of the post-persistence hooks' failures.                     *)
(***************************************************************************)
\* C25 (as claimed): a failure of AfterCreate, AfterUpdate, AfterDelete or
\* AfterFind is written to the log once by the call in which it happened:
\* writing the log entry is one of the steps of that call.
C25_AfterHookFailureLogged ==
    hookErr.step \in AfterHooks =>
        Cardinality({k \in 1..Len(trace) : trace[k] = Ev("log", hookErr.idx)}) = 1

(***************************************************************************)
(* Properties of Commit() and Rollback() on the transactional handle.      *)
(***************************************************************************)
\* C29: Commit() and Rollback() on the transactional handle return nil,
\* issue no store call and leave the table and the open transaction as
\* they are; a transaction in which fn called them still commits if and
\* only if fn returns nil, and when it does (the store committing) the rows
\* fn wrote are stored.
C29_CommitRollbackNoOps ==
    /\ lastOp \in {"Commit", "Rollback"} =>
          /\ lastErr = Nil
          /\ trace = <<>>
          /\ storeErr = Nil
          /\ rows = prevRows
          /\ txOpen
    /\ (lastOp = "Transaction" /\ "fn" \in Steps(trace) /\ txCalls # {}) =>
          /\ lastArg = Nil <=> "commit" \in Steps(trace)
          /\ (lastArg = Nil /\ storeErr = Nil) =>
                /\ lastErr = Nil
                /\ rows = lastResult
                /\ \A id \in txCreated : rows[id] # NoRow

\* fn created a row, called Rollback(), returned nil: the row is stored
C29_Witness ==
    /\ lastOp = "Transaction"
    /\ "Rollback" \in txCalls
    /\ lastArg = Nil
    /\ lastErr = Nil
    /\ \E id \in txCreated : prevRows[id] = NoRow /\ rows[id] # NoRow

(***************************************************************************)
(* Properties of the handle a repository holds.                            *)
(***************************************************************************)
\* the repository's handle, and above it the handle of an open transaction
HandlesAsOpened == IF txOpen THEN <<Begin(Open), Open>> ELSE <<Open>>

\* C21: the statement FindAll, Query, QueryOne, Count and Exists compile is
\* the one their own options give on an empty statement, whatever calls came
\* before and also inside a transaction; every call leaves the repository's
\* handle as it was opened.
C21_QueriesIndependent ==
    /\ handles = HandlesAsOpened
    /\ lastOp \in {"FindAll", "Query", "QueryOne", "Count", "Exists"} =>
          lastQuery = buildQuery(lastArg)

\* inside a transaction, a retrieval compiled after others have run
C21_Witness ==
    /\ txOpen
    /\ lastOp = "Count"
    /\ lastArg = <<Limit(1)>>
    /\ lastQuery = [EmptyStatement EXCEPT !.limit = <<1>>, !.calls = <<"Limit">>]
    /\ txCreated # {}

(***************************************************************************)
(* Properties of Count, Exists and DeleteByCondition.                      *)
(***************************************************************************)
\* C22: Exists(opts) returns true exactly when Count(opts) on the same table
\* is greater than zero; when Count fails Exists returns false and the same
\* error.
C22_ExistsIffCountPositive ==
    lastOp = "Exists" =>
        LET c == Count(prevRows, buildQuery(lastArg), storeErr)
        IN  /\ lastResult = (c.result > 0)
            /\ lastErr = c.err
            /\ c.err # Nil => (lastResult = FALSE /\ lastErr # Nil)
            /\ c.err = Nil =>
                  (lastResult <=> \E i \in UsedIds(prevRows) :
                        \A k \in 1..Len(lastArg) :
                            IsBasic(lastArg[k], "Where") => Satisfies(EntityOf(prevRows, i), lastArg[k].cond))

\* rows are stored and none satisfies the filter: Exists is false
C22_Witness ==
    /\ lastOp = "Exists"
    /\ lastErr = Nil
    /\ lastResult = FALSE
    /\ UsedIds(prevRows) # {}
    /\ Len(lastArg) = 3

\* C26: DeleteByCondition with a BasicCondition, the store executing the
\* statement, removes the stored rows that satisfy the condition and leaves
\* every other row as it was.
C26_DeletesExactlyMatching ==
    (lastOp = "DeleteByCondition" /\ lastArg.variant = "basic" /\ storeErr = Nil) =>
        /\ lastErr = Nil
        /\ \A i \in Ids :
              rows[i] = IF prevRows[i] # NoRow /\ Satisfies(EntityOf(prevRows, i), lastArg)
                        THEN NoRow ELSE prevRows[i]

\* one row is removed and one is kept
C26_Witness ==
    /\ lastOp = "DeleteByCondition"
    /\ lastArg.variant = "basic"
    /\ lastErr = Nil
    /\ \E i, j \in Ids : prevRows[i] # NoRow /\ rows[i] = NoRow /\ rows[j] # NoRow

\* C30: DeleteByCondition with a condition that is not a BasicCondition
\* removes no row: the statement has no WHERE clause and is refused.
C30_NonBasicDeletesNothing ==
    (lastOp = "DeleteByCondition" /\ lastArg.variant # "basic") =>
        /\ rows = prevRows
        /\ lastQuery.where = <<>>
        /\ IsGPA(lastErr, "Database")

\* the table holds rows and the composite condition leaves them all
C30_Witness ==
    /\ lastOp = "DeleteByCondition"
    /\ lastArg = CompositeCondition("OR")
    /\ \A i \in Ids : rows[i] # NoRow

(***************************************************************************)
(* Properties of GetEntityInfo.                                            *)
(***************************************************************************)
\* the names of the descriptors marked primary key, in order
RECURSIVE KeyNames(_)
KeyNames(descs) ==
    IF descs = <<>> THEN <<>>
    ELSE (IF Head(descs).IsPrimaryKey THEN <<Head(descs).Name>> ELSE <<>>) \o KeyNames(Tail(descs))

\* C27: GetEntityInfo returns one descriptor per schema field in declaration
\* order; PrimaryKey lists exactly the names of the descriptors with
\* IsPrimaryKey, in field order; with a single primary key field it is that
\* field's name alone.
C27_EntityInfoFields ==
    (lastOp = "GetEntityInfo" /\ lastErr = Nil) =>
        LET info == lastResult
            keys == {k \in 1..Len(lastArg) : lastArg[k].PrimaryKey}
        IN  /\ Len(info.Fields) = Len(lastArg)
            /\ \A k \in 1..Len(lastArg) :
                  /\ info.Fields[k].Name = lastArg[k].Name
                  /\ info.Fields[k].IsPrimaryKey = lastArg[k].PrimaryKey
            /\ info.PrimaryKey = KeyNames(info.Fields)
            /\ Len(info.PrimaryKey) = Cardinality(keys)
            /\ \A k \in keys : keys = {k} => info.PrimaryKey = <<lastArg[k].Name>>

\* a composite key: two of three fields are primary key fields
C27_Witness ==
    /\ lastOp = "GetEntityInfo"
    /\ lastErr = Nil
    /\ Len(lastArg) = 3
    /\ lastResult.PrimaryKey = <<"ID", "Email">>

(***************************************************************************)
(* Properties of CreateBatch on long lists.                                *)
(***************************************************************************)
RECURSIVE SumLen(_)
SumLen(seqs) == IF seqs = <<>> THEN 0 ELSE Len(Head(seqs)) + SumLen(Tail(seqs))

\* C23: a successful CreateBatch of N entities issues ceil(N / 100) INSERTs
\* of at most 100 rows each (one for N = 100, two for N = 101), stores N new
\* rows, and every entity has a non-zero primary key of its own afterwards.
C23_BatchWrites ==
    (lastOp = "CreateBatch" /\ lastErr = Nil) =>
        LET N == lastArg
            w == lastResult.writes
            ids == lastResult.ids
        IN  /\ Len(w) * 100 >= N
            /\ N > 0 => (Len(w) - 1) * 100 < N
            /\ N = 0 => Len(w) = 0
            /\ N = 100 => Len(w) = 1
            /\ N = 101 => Len(w) = 2
            /\ \A k \in 1..Len(w) : Len(w[k]) \in 1..100
            /\ SumLen(w) = N
            /\ Len(trace) = Len(w)
            /\ lastResult.stored = lastArg2 + N
            /\ Len(ids) = N
            /\ \A k \in 1..N : ids[k] > lastArg2
            /\ \A j, k \in {1, 100, 101, N} : (j <= N /\ k <= N /\ j # k) => ids[j] # ids[k]
            /\ {ids[k] : k \in 1..N} = UNION {{w[j][k] : k \in 1..Len(w[j])} : j \in 1..Len(w)}

\* 201 entities: three INSERTs of 100, 100 and 1 rows
C23_Witness ==
    /\ lastOp = "CreateBatch"
    /\ lastErr = Nil
    /\ lastArg = 201
    /\ Len(lastResult.writes) = 3
    /\ Len(lastResult.writes[3]) = 1
    /\ lastResult.ids[201] = lastArg2 + 201

(***************************************************************************)
(* Properties of concurrent callers.                                       *)
(***************************************************************************)
\* the callers of the round have all returned
RoundOver == \A p \in Procs : procs[p].pc = "done"

C24_DuplicateOnExisting ==
    /\ \A p \in Procs :
          (procs[p].pc = "done" /\ procs[p].op \in {"CreateTable", "CreateIndex"} /\ procs[p].before) =>
              /\ IsGPA(procs[p].err, "Duplicate")
              /\ "create" \notin Steps(procs[p].trace)
    /\ (/\ RoundOver
        /\ ~procs["p1"].before
        /\ \/ procs["p1"].op = "CreateTable"
           \/ procs["p1"].op = "CreateIndex" /\ procs["p1"].arg = <<"email">> /\ schema.table) =>
          \E p \in Procs :
              /\ procs[p].err = Nil
              /\ \A q \in Procs \ {p} : IsGPA(procs[q].err, "Duplicate")

====
